---- MODULE Spec2Model ----
(***************************************************************************)
(* Model of the Pokemon data platform's write path and API client.         *)
(*                                                                         *)
(*  - DatabaseLoader (src/src/loading/db_loader.py) over the relational    *)
(*    store declared in src/src/models/*.py, one SQLAlchemy session with   *)
(*    autoflush off (src/src/models/base.py:15).                           *)
(*  - PokemonApiClient (src/src/ingestion/api_client.py): file cache,      *)
(*    minimum-interval throttle, retry decorator.                          *)
(***************************************************************************)
EXTENDS Integers, Sequences, FiniteSets, TLC

VARIABLES
    db,      \* the relational store: table name -> sequence of committed rows
    pc,      \* position of the loader: "idle" or the next stage of a composite load
    calls,   \* loader calls started so far
    last,    \* the last loader method run: its name, input, outcome
    now,     \* the wall clock, in seconds
    last_request_time,  \* per client instance: its throttle watermark
    cache,   \* the cache directory: file path -> the JSON body stored in it
    req,     \* the get call in progress between two tries, if any
    out,     \* what the last run of get's body did
    net,     \* per client instance: when its last network request was sent
    gets,    \* get calls started so far
    io       \* the last call of a fetcher, transformer, analyzer or entry point:
             \* what it was given and what it returned

lvars == <<db, pc, calls, last>>
cvars == <<now, last_request_time, cache, req, out, net, gets>>
vars == <<db, pc, calls, last, now, last_request_time, cache, req, out, net, gets, io>>

----------------------------------------------------------------------------
(* Bounds *)

MaxLen == 2      \* longest input list handed to one loader method
MaxCalls == 2    \* loader calls in one run

----------------------------------------------------------------------------
(* Small value domains the inputs are drawn from *)

PokemonIds == {1}
TypeIds == {1, 2}
AbilityIds == {1}
MoveIds == {1}
DefenseIds == {1}
Names == {"a", "b"}
StatNames == {"hp"}
StatValues == {35, 45}
Slots == {1, 2}
Levels == {0, 5}
LearnMethods == {"machine"}
\* effectiveness multipliers in quarters: 0.0, 0.5, 1.0, 2.0 are 0, 2, 4, 8
Multipliers == {2, 8}
Null == "NULL"

SeqsUpTo(S, n) == UNION {[1..k -> S] : k \in 0..n}

Digits == <<"0", "1", "2", "3", "4", "5", "6", "7", "8", "9">>

\* str(n) of a natural number: its decimal digits
RECURSIVE str(_)
str(n) == IF n < 10 THEN <<Digits[n + 1]>>
          ELSE str(n \div 10) \o <<Digits[(n % 10) + 1]>>

----------------------------------------------------------------------------
(* The schema: src/src/models *)

\* For each mapped class: its table, the attributes its constructor accepts
\* (columns and relationships), its columns without the surrogate id, whether
\* id is a supplied primary key, unique columns, and foreign keys.
PokemonM ==
    [table |-> "pokemon",
     attrs |-> {"id", "name", "height", "weight", "base_experience", "is_default",
                "order_num", "stats", "types", "abilities", "moves"},
     cols |-> {"id", "name", "height", "weight", "base_experience", "is_default",
               "order_num"},
     pk |-> TRUE, unique |-> {}, fk |-> {}]

PokemonStatM ==
    [table |-> "pokemon_stats",
     attrs |-> {"id", "pokemon_id", "stat_name", "base_value", "pokemon"},
     cols |-> {"pokemon_id", "stat_name", "base_value"},
     pk |-> FALSE, unique |-> {}, fk |-> {<<"pokemon_id", "pokemon">>}]

TypeM ==
    [table |-> "types",
     attrs |-> {"id", "name", "pokemon", "moves", "attack_effectiveness",
                "defense_effectiveness"},
     cols |-> {"id", "name"},
     pk |-> TRUE, unique |-> {"name"}, fk |-> {}]

PokemonTypeM ==
    [table |-> "pokemon_types",
     attrs |-> {"id", "pokemon_id", "type_id", "slot", "pokemon", "type"},
     cols |-> {"pokemon_id", "type_id", "slot"},
     pk |-> FALSE, unique |-> {},
     fk |-> {<<"pokemon_id", "pokemon">>, <<"type_id", "types">>}]

TypeEffectivenessM ==
    [table |-> "type_effectiveness",
     attrs |-> {"id", "attack_type_id", "defense_type_id", "effectiveness",
                "attack_type", "defense_type"},
     cols |-> {"attack_type_id", "defense_type_id", "effectiveness"},
     pk |-> FALSE, unique |-> {},
     fk |-> {<<"attack_type_id", "types">>, <<"defense_type_id", "types">>}]

AbilityM ==
    [table |-> "abilities",
     attrs |-> {"id", "name", "effect_text", "short_effect", "pokemon"},
     cols |-> {"id", "name", "effect_text", "short_effect"},
     pk |-> TRUE, unique |-> {"name"}, fk |-> {}]

PokemonAbilityM ==
    [table |-> "pokemon_abilities",
     attrs |-> {"id", "pokemon_id", "ability_id", "is_hidden", "slot", "pokemon",
                "ability"},
     cols |-> {"pokemon_id", "ability_id", "is_hidden", "slot"},
     pk |-> FALSE, unique |-> {},
     fk |-> {<<"pokemon_id", "pokemon">>, <<"ability_id", "abilities">>}]

PokemonMoveM ==
    [table |-> "pokemon_moves",
     attrs |-> {"id", "pokemon_id", "move_id", "level_learned_at", "learn_method",
                "pokemon", "move"},
     cols |-> {"pokemon_id", "move_id", "level_learned_at", "learn_method"},
     pk |-> FALSE, unique |-> {},
     fk |-> {<<"pokemon_id", "pokemon">>, <<"move_id", "moves">>}]

Tables == {"pokemon", "pokemon_stats", "types", "type_effectiveness",
           "pokemon_types", "abilities", "pokemon_abilities", "moves",
           "pokemon_moves"}

----------------------------------------------------------------------------
(* One unit of work of the session *)

Key(row, keyF) == [f \in keyF |-> row[f]]

\* positions of the committed rows that the existence query's filter matches
Matches(tbl, keyF, item) ==
    {i \in 1..Len(tbl) : \A f \in keyF : tbl[i][f] = item[f]}

Min(S) == CHOOSE x \in S : \A y \in S : x <= y

\* Query.first() has no ORDER BY: when several rows match, the store returns
\* any of them; `first` is the store's choice for each key that has one.
First(tbl, keyF, item, first) ==
    LET k == Key(item, keyF)
    IN IF k \in DOMAIN first THEN first[k] ELSE Min(Matches(tbl, keyF, item))

\* every way the store may answer first() for the keys present in a table
Firsts(tbl, keyF) ==
    LET K == {Key(tbl[i], keyF) : i \in 1..Len(tbl)}
    IN {f \in [K -> 1..Len(tbl)] : \A k \in K : Key(tbl[f[k]], keyF) = k}

\* Model(**data): the declarative constructor rejects a keyword that is no
\* attribute of the class; a column not given stays NULL.
Accepts(M, item) == DOMAIN item \subseteq M.attrs

Construct(M, item) ==
    [c \in M.cols |-> IF c \in DOMAIN item THEN item[c] ELSE Null]

\* the attribute assignments of the update branch; an attribute that is no
\* column is a plain object attribute and never reaches the store
Assign(row, item, fields) ==
    [c \in DOMAIN row |-> IF c \in fields /\ c \in DOMAIN item THEN item[c] ELSE row[c]]

CleanSession == [upd |-> <<>>, new |-> <<>>, exc |-> "none"]

\* The loop of a load method over its input, in one session with autoflush
\* off: the existence query sees committed rows only. s.upd maps a row
\* position to the row as assigned so far, s.new lists the added objects.
\* U describes the method: U.key the filter columns of the existence query,
\* U.set the columns the update branch assigns from the item (all the item's
\* keys when U.all), U.read the item keys the update branch reads with [].
RECURSIVE UnitOfWork(_, _, _, _, _, _)
UnitOfWork(tbl, M, U, data, first, s) ==
    IF data = <<>> \/ s.exc # "none" THEN s
    ELSE LET item == Head(data) IN
         IF ~(U.key \subseteq DOMAIN item) THEN [s EXCEPT !.exc = "KeyError"]
         ELSE IF Matches(tbl, U.key, item) # {}
         THEN LET i == First(tbl, U.key, item, first)
                  cur == IF i \in DOMAIN s.upd THEN s.upd[i] ELSE tbl[i]
                  fields == IF U.all THEN DOMAIN item ELSE U.set
              IN IF ~(U.read \subseteq DOMAIN item)
                 THEN [s EXCEPT !.exc = "KeyError"]
                 ELSE UnitOfWork(tbl, M, U, Tail(data), first,
                          [s EXCEPT !.upd = (i :> Assign(cur, item, fields)) @@ s.upd])
         ELSE IF ~Accepts(M, item) THEN [s EXCEPT !.exc = "TypeError"]
              ELSE UnitOfWork(tbl, M, U, Tail(data), first,
                       [s EXCEPT !.new = Append(s.new, Construct(M, item))])

----------------------------------------------------------------------------
(* The store: constraints checked statement by statement at flush *)

Distinct(tbl, col) ==
    \A i, j \in 1..Len(tbl) : i # j => tbl[i][col] # tbl[j][col]

\* primary key and unique constraints of a table
ConstraintsHold(tbl, M) ==
    /\ M.pk => Distinct(tbl, "id")
    /\ \A c \in M.unique : Distinct(tbl, c)

Has(store, table, id) == \E j \in 1..Len(store[table]) : store[table][j].id = id

\* the parent tables in which a row's foreign keys find no row
MissingParents(store, M, row) ==
    {fk[2] : fk \in {g \in M.fk : ~Has(store, g[2], row[g[1]])}}

Flushed(tbl) == [tbl |-> tbl, exc |-> "none", missing |-> {}]

\* UPDATE statements, in primary key order
RECURSIVE Updates(_, _, _, _)
Updates(M, tbl, upd, todo) ==
    IF todo = {} THEN Flushed(tbl)
    ELSE LET i == Min(todo)
             t == [tbl EXCEPT ![i] = upd[i]]
         IN IF ~ConstraintsHold(t, M)
            THEN [tbl |-> tbl, exc |-> "IntegrityError", missing |-> {}]
            ELSE Updates(M, t, upd, todo \ {i})

\* INSERT statements, in the order the objects were added
RECURSIVE Inserts(_, _, _, _)
Inserts(store, M, tbl, new) ==
    IF new = <<>> THEN Flushed(tbl)
    ELSE LET row == Head(new)
             t == Append(tbl, row)
         IN IF ~ConstraintsHold(t, M)
            THEN [tbl |-> tbl, exc |-> "IntegrityError", missing |-> {}]
            ELSE IF MissingParents(store, M, row) # {}
            THEN [tbl |-> tbl, exc |-> "IntegrityError",
                  missing |-> MissingParents(store, M, row)]
            ELSE Inserts(store, M, t, Tail(new))

\* session.flush(): the session's updates, then its inserts
Flush(store, M, s) ==
    LET u == Updates(M, store[M.table], s.upd, DOMAIN s.upd)
    IN IF u.exc # "none" THEN u ELSE Inserts(store, M, u.tbl, s.new)

----------------------------------------------------------------------------
(* DatabaseLoader: src/src/loading/db_loader.py *)

\* a handler without the rollback: the pending updates and inserts stay
OnExceptionKeepPending(store, M, s) ==
    [store EXCEPT ![M.table] =
        [i \in 1..Len(@) |-> IF i \in DOMAIN s.upd THEN s.upd[i] ELSE @[i]] \o s.new]

\* a handler that clears the table it was writing
OnExceptionEmptyTable(store, M, s) == [store EXCEPT ![M.table] = <<>>]

\* except Exception: self.db.rollback() -- the store keeps its committed rows
OnException(store, M, s) == store

\* try: <loop>; self.db.commit()  except: self.db.rollback(); raise
Load(store, M, U, data, first) ==
    LET s == UnitOfWork(store[M.table], M, U, data, first, CleanSession)
        f == Flush(store, M, s)
    IN IF s.exc # "none"
       THEN [db |-> OnException(store, M, s), exc |-> s.exc, missing |-> {}]
       ELSE IF f.exc # "none"
       THEN [db |-> OnException(store, M, s), exc |-> f.exc, missing |-> f.missing]
       ELSE [db |-> [store EXCEPT ![M.table] = f.tbl], exc |-> "none", missing |-> {}]

PokemonU == [key |-> {"id"}, set |-> {}, all |-> TRUE, read |-> {"name", "id"}]
PokemonStatU == [key |-> {"pokemon_id", "stat_name"}, set |-> {"base_value"},
                 all |-> FALSE, read |-> {"base_value"}]
TypeU == [key |-> {"id"}, set |-> {"name"}, all |-> FALSE, read |-> {"name"}]
TypeEffectivenessU ==
    [key |-> {"attack_type_id", "defense_type_id"}, set |-> {"effectiveness"},
     all |-> FALSE, read |-> {"effectiveness"}]
PokemonTypeU == [key |-> {"pokemon_id", "type_id"}, set |-> {"slot"},
                 all |-> FALSE, read |-> {"slot"}]
AbilityU == [key |-> {"id"}, set |-> {}, all |-> TRUE, read |-> {}]
PokemonAbilityU == [key |-> {"pokemon_id", "ability_id"}, set |-> {"is_hidden", "slot"},
                    all |-> FALSE, read |-> {"is_hidden", "slot"}]
PokemonMoveU ==
    [key |-> {"pokemon_id", "move_id", "learn_method"}, set |-> {"level_learned_at"},
     all |-> FALSE, read |-> {"level_learned_at"}]

load_pokemon(store, pokemon_data, first) ==
    Load(store, PokemonM, PokemonU, <<pokemon_data>>, first)

load_pokemon_stats(store, stats_data, first) ==
    Load(store, PokemonStatM, PokemonStatU, stats_data, first)

load_types(store, types_data, first) ==
    Load(store, TypeM, TypeU, types_data, first)

load_type_effectiveness(store, effectiveness_data, first) ==
    Load(store, TypeEffectivenessM, TypeEffectivenessU, effectiveness_data, first)

load_pokemon_types(store, pokemon_types_data, first) ==
    Load(store, PokemonTypeM, PokemonTypeU, pokemon_types_data, first)

load_all_ability_data(store, transformed_data, first) ==
    Load(store, AbilityM, AbilityU, transformed_data, first)

load_pokemon_ability(store, ability_data, first) ==
    Load(store, PokemonAbilityM, PokemonAbilityU, <<ability_data>>, first)

load_pokemon_move(store, move_data, first) ==
    Load(store, PokemonMoveM, PokemonMoveU, <<move_data>>, first)

Loaded(store) == [db |-> store, exc |-> "none", missing |-> {}]

\* the store's answer to first() where it has no choice to make
NoChoice == <<>>

\* for pokemon_data in transformed_data.get('pokemon', []): self.load_pokemon(...)
RECURSIVE EachPokemon(_, _)
EachPokemon(store, data) ==
    IF data = <<>> THEN Loaded(store)
    ELSE LET r == load_pokemon(store, Head(data), NoChoice)
         IN IF r.exc # "none" THEN r ELSE EachPokemon(r.db, Tail(data))

\* for ability_data in transformed_data['abilities']: self._load_pokemon_ability(...)
RECURSIVE EachPokemonAbility(_, _)
EachPokemonAbility(store, data) ==
    IF data = <<>> THEN Loaded(store)
    ELSE LET r == load_pokemon_ability(store, Head(data), NoChoice)
         IN IF r.exc # "none" THEN r ELSE EachPokemonAbility(r.db, Tail(data))

\* for move_data in transformed_data['moves']: self._load_pokemon_move(...)
RECURSIVE EachPokemonMove(_, _)
EachPokemonMove(store, data) ==
    IF data = <<>> THEN Loaded(store)
    ELSE LET r == load_pokemon_move(store, Head(data), NoChoice)
         IN IF r.exc # "none" THEN r ELSE EachPokemonMove(r.db, Tail(data))

\* a handler that logs and goes on to the next entity type
SwallowAndContinue(next, exc) == next

\* except Exception as e: logger.error(...); raise -- the composite load ends
\* at the failing entity type
NextStage(next, exc) == IF exc = "none" THEN next ELSE "idle"

----------------------------------------------------------------------------
(* AbilityTransformer: src/src/transformation/ability_transformer.py *)

\* next((entry[field] for entry in entries if entry["language"]["name"] == "en"), default)
RECURSIVE FirstEnglish(_, _, _)
FirstEnglish(entries, field, default) ==
    IF entries = <<>> THEN default
    ELSE IF Head(entries).language.name = "en" THEN Head(entries)[field]
    ELSE FirstEnglish(Tail(entries), field, default)

transform_ability(raw_ability) ==
    [id |-> raw_ability.id,
     name |-> FirstEnglish(raw_ability.names, "name", raw_ability.name),
     effect |-> FirstEnglish(raw_ability.effect_entries, "effect", ""),
     flavor_text |-> FirstEnglish(raw_ability.flavor_text_entries, "flavor_text", ""),
     is_main_series |-> raw_ability.is_main_series]

transform_ability_batch(raw_abilities) ==
    [i \in 1..Len(raw_abilities) |-> transform_ability(raw_abilities[i])]

----------------------------------------------------------------------------
(* Inputs *)

\* a dictionary without the keys the loader reads
Malformed == [junk |-> 0]

\* the records PokemonTransformer.transform_pokemon builds
PokemonItems ==
    {[id |-> i, name |-> n, height |-> 7, weight |-> 69, base_experience |-> 64,
      is_default |-> TRUE, order_num |-> 1] : i \in PokemonIds, n \in Names}

StatItems ==
    {[pokemon_id |-> p, stat_name |-> n, base_value |-> v] :
        p \in PokemonIds, n \in StatNames, v \in StatValues}

PokemonTypeItems ==
    {[pokemon_id |-> p, type_id |-> t, slot |-> s] :
        p \in PokemonIds, t \in TypeIds, s \in Slots}

PokemonAbilityItems ==
    {[pokemon_id |-> p, ability_id |-> a, is_hidden |-> h, slot |-> 1] :
        p \in PokemonIds, a \in AbilityIds, h \in BOOLEAN}

PokemonMoveItems ==
    {[pokemon_id |-> p, move_id |-> m, level_learned_at |-> l, learn_method |-> lm] :
        p \in PokemonIds, m \in MoveIds, l \in Levels, lm \in LearnMethods}

\* the records TypeTransformer.transform_type builds
TypeItems == {[id |-> i, name |-> n] : i \in TypeIds, n \in Names}

EffectivenessItems ==
    {[attack_type_id |-> a, defense_type_id |-> d, effectiveness |-> e] :
        a \in TypeIds, d \in DefenseIds, e \in Multipliers}

\* raw ability records of the API, and what the transformer makes of them
RawAbilities ==
    {[id |-> i, name |-> "a", names |-> ns, effect_entries |-> <<>>,
      flavor_text_entries |-> <<>>, is_main_series |-> TRUE] :
        i \in AbilityIds,
        ns \in {<<>>, <<[language |-> [name |-> "de"], name |-> "c"],
                        [language |-> [name |-> "en"], name |-> "b"]>>}}

TransformedAbilities == {transform_ability(r) : r \in RawAbilities}

\* records shaped like the abilities table
AbilityRows ==
    {[id |-> i, name |-> n, effect_text |-> "", short_effect |-> ""] :
        i \in AbilityIds, n \in Names}

PokemonInputs == PokemonItems \cup {Malformed}
StatInputs == StatItems \cup {Malformed}
PokemonTypeInputs == PokemonTypeItems \cup {Malformed}
PokemonAbilityInputs == PokemonAbilityItems \cup {Malformed}
PokemonMoveInputs == PokemonMoveItems \cup {Malformed}
TypeInputs == TypeItems \cup {Malformed}
EffectivenessInputs == EffectivenessItems \cup {Malformed}
AbilityInputs == TransformedAbilities \cup AbilityRows \cup {Malformed}

\* the lists a composite load's dictionary holds: records of one transformed
\* Pokemon (of the types, for load_all_type_data), or a malformed record
OnePokemon == {x \in PokemonItems : x.name = "a"} \cup {Malformed}
ItsStats == {x \in StatItems : x.base_value = 35} \cup {Malformed}
ItsTypes == {x \in PokemonTypeItems : x.slot = x.type_id} \cup {Malformed}
ItsAbilities == {x \in PokemonAbilityItems : ~x.is_hidden} \cup {Malformed}
ItsMoves == {x \in PokemonMoveItems : x.level_learned_at = 0} \cup {Malformed}
TheTypes == {x \in TypeItems : (x.id = 1) = (x.name = "a")} \cup {Malformed}
TheirEffectiveness == {x \in EffectivenessItems : x.effectiveness = 8} \cup {Malformed}

----------------------------------------------------------------------------
(* The loader as a state machine *)

EmptyStore == [t \in Tables |-> <<>>]

LoaderInit ==
    /\ db = EmptyStore
    /\ pc = "idle"
    /\ calls = 0
    /\ last = [op |-> "none", via |-> "", table |-> "", arg |-> <<>>, exc |-> "none",
               missing |-> {}, changed |-> FALSE, wrote |-> {}]

\* the record of one method run: r is its result on the store `db`, wrote the
\* tables in which earlier stages of the same composite call committed a change
Ran(op, via, table, data, r, wrote) ==
    [op |-> op, via |-> via, table |-> table, arg |-> data, exc |-> r.exc,
     missing |-> r.missing, changed |-> r.db # db, wrote |-> wrote]

CanCall == pc = "idle" /\ calls < MaxCalls

WroteSoFar == last.wrote \cup (IF last.changed THEN {last.table} ELSE {})

LoadPokemon ==
    /\ CanCall
    /\ \E item \in PokemonInputs, first \in Firsts(db.pokemon, PokemonU.key) :
          LET r == load_pokemon(db, item, first)
          IN /\ db' = r.db
             /\ last' = Ran("load_pokemon", "", "pokemon", <<item>>, r, {})
    /\ calls' = calls + 1
    /\ pc' = "idle"
    /\ UNCHANGED <<cvars, io>>

LoadPokemonStats ==
    /\ CanCall
    /\ \E data \in SeqsUpTo(StatInputs, MaxLen),
          first \in Firsts(db.pokemon_stats, PokemonStatU.key) :
          LET r == load_pokemon_stats(db, data, first)
          IN /\ db' = r.db
             /\ last' = Ran("load_pokemon_stats", "", "pokemon_stats", data, r, {})
    /\ calls' = calls + 1
    /\ pc' = "idle"
    /\ UNCHANGED <<cvars, io>>

LoadTypes ==
    /\ CanCall
    /\ \E data \in SeqsUpTo(TypeInputs, MaxLen), first \in Firsts(db.types, TypeU.key) :
          LET r == load_types(db, data, first)
          IN /\ db' = r.db
             /\ last' = Ran("load_types", "", "types", data, r, {})
    /\ calls' = calls + 1
    /\ pc' = "idle"
    /\ UNCHANGED <<cvars, io>>

LoadTypeEffectiveness ==
    /\ CanCall
    /\ \E data \in SeqsUpTo(EffectivenessInputs, MaxLen),
          first \in Firsts(db.type_effectiveness, TypeEffectivenessU.key) :
          LET r == load_type_effectiveness(db, data, first)
          IN /\ db' = r.db
             /\ last' = Ran("load_type_effectiveness", "", "type_effectiveness",
                            data, r, {})
    /\ calls' = calls + 1
    /\ pc' = "idle"
    /\ UNCHANGED <<cvars, io>>

LoadPokemonTypes ==
    /\ CanCall
    /\ \E data \in SeqsUpTo(PokemonTypeInputs, MaxLen),
          first \in Firsts(db.pokemon_types, PokemonTypeU.key) :
          LET r == load_pokemon_types(db, data, first)
          IN /\ db' = r.db
             /\ last' = Ran("load_pokemon_types", "", "pokemon_types", data, r, {})
    /\ calls' = calls + 1
    /\ pc' = "idle"
    /\ UNCHANGED <<cvars, io>>

LoadAllAbilityData ==
    /\ CanCall
    /\ \E data \in SeqsUpTo(AbilityInputs, MaxLen),
          first \in Firsts(db.abilities, AbilityU.key) :
          LET r == load_all_ability_data(db, data, first)
          IN /\ db' = r.db
             /\ last' = Ran("load_all_ability_data", "", "abilities", data, r, {})
    /\ calls' = calls + 1
    /\ pc' = "idle"
    /\ UNCHANGED <<cvars, io>>

LoadPokemonAbility ==
    /\ CanCall
    /\ \E item \in PokemonAbilityInputs,
          first \in Firsts(db.pokemon_abilities, PokemonAbilityU.key) :
          LET r == load_pokemon_ability(db, item, first)
          IN /\ db' = r.db
             /\ last' = Ran("_load_pokemon_ability", "", "pokemon_abilities",
                            <<item>>, r, {})
    /\ calls' = calls + 1
    /\ pc' = "idle"
    /\ UNCHANGED <<cvars, io>>

LoadPokemonMove ==
    /\ CanCall
    /\ \E item \in PokemonMoveInputs,
          first \in Firsts(db.pokemon_moves, PokemonMoveU.key) :
          LET r == load_pokemon_move(db, item, first)
          IN /\ db' = r.db
             /\ last' = Ran("_load_pokemon_move", "", "pokemon_moves", <<item>>, r, {})
    /\ calls' = calls + 1
    /\ pc' = "idle"
    /\ UNCHANGED <<cvars, io>>

\* load_all_pokemon_data, one entity type per step. Each step draws the list
\* the call's dictionary holds for that entity type (a missing 'abilities' or
\* 'moves' key behaves as the empty list); no other action is enabled until
\* the call has returned or raised.
LoadAllPokemonData ==
    /\ CanCall
    /\ \E data \in SeqsUpTo(OnePokemon, MaxLen) :
          LET r == EachPokemon(db, data)
          IN /\ db' = r.db
             /\ last' = Ran("load_pokemon", "load_all_pokemon_data", "pokemon",
                            data, r, {})
             /\ pc' = NextStage("pokemon_stats", r.exc)
    /\ calls' = calls + 1
    /\ UNCHANGED <<cvars, io>>

PokemonStatsStage ==
    /\ pc = "pokemon_stats"
    /\ \E data \in SeqsUpTo(ItsStats, MaxLen),
          first \in Firsts(db.pokemon_stats, PokemonStatU.key) :
          LET r == load_pokemon_stats(db, data, first)
          IN /\ db' = r.db
             /\ last' = Ran("load_pokemon_stats", "load_all_pokemon_data",
                            "pokemon_stats", data, r, WroteSoFar)
             /\ pc' = NextStage("pokemon_types", r.exc)
    /\ UNCHANGED calls
    /\ UNCHANGED <<cvars, io>>

PokemonTypesStage ==
    /\ pc = "pokemon_types"
    /\ \E data \in SeqsUpTo(ItsTypes, MaxLen),
          first \in Firsts(db.pokemon_types, PokemonTypeU.key) :
          LET r == load_pokemon_types(db, data, first)
          IN /\ db' = r.db
             /\ last' = Ran("load_pokemon_types", "load_all_pokemon_data",
                            "pokemon_types", data, r, WroteSoFar)
             /\ pc' = NextStage("pokemon_abilities", r.exc)
    /\ UNCHANGED calls
    /\ UNCHANGED <<cvars, io>>

PokemonAbilitiesStage ==
    /\ pc = "pokemon_abilities"
    /\ \E data \in SeqsUpTo(ItsAbilities, MaxLen) :
          LET r == EachPokemonAbility(db, data)
          IN /\ db' = r.db
             /\ last' = Ran("_load_pokemon_ability", "load_all_pokemon_data",
                            "pokemon_abilities", data, r, WroteSoFar)
             /\ pc' = NextStage("pokemon_moves", r.exc)
    /\ UNCHANGED calls
    /\ UNCHANGED <<cvars, io>>

PokemonMovesStage ==
    /\ pc = "pokemon_moves"
    /\ \E data \in SeqsUpTo(ItsMoves, MaxLen) :
          LET r == EachPokemonMove(db, data)
          IN /\ db' = r.db
             /\ last' = Ran("_load_pokemon_move", "load_all_pokemon_data",
                            "pokemon_moves", data, r, WroteSoFar)
             /\ pc' = NextStage("idle", r.exc)
    /\ UNCHANGED calls
    /\ UNCHANGED <<cvars, io>>

\* load_all_type_data: types, then effectiveness
LoadAllTypeData ==
    /\ CanCall
    /\ \E data \in SeqsUpTo(TheTypes, MaxLen), first \in Firsts(db.types, TypeU.key) :
          LET r == load_types(db, data, first)
          IN /\ db' = r.db
             /\ last' = Ran("load_types", "load_all_type_data", "types", data, r, {})
             /\ pc' = NextStage("type_effectiveness", r.exc)
    /\ calls' = calls + 1
    /\ UNCHANGED <<cvars, io>>

TypeEffectivenessStage ==
    /\ pc = "type_effectiveness"
    /\ \E data \in SeqsUpTo(TheirEffectiveness, MaxLen),
          first \in Firsts(db.type_effectiveness, TypeEffectivenessU.key) :
          LET r == load_type_effectiveness(db, data, first)
          IN /\ db' = r.db
             /\ last' = Ran("load_type_effectiveness", "load_all_type_data",
                            "type_effectiveness", data, r, WroteSoFar)
             /\ pc' = NextStage("idle", r.exc)
    /\ UNCHANGED calls
    /\ UNCHANGED <<cvars, io>>

LoaderNext ==
    \/ LoadPokemon
    \/ LoadPokemonStats
    \/ LoadTypes
    \/ LoadTypeEffectiveness
    \/ LoadPokemonTypes
    \/ LoadAllAbilityData
    \/ LoadPokemonAbility
    \/ LoadPokemonMove
    \/ LoadAllPokemonData
    \/ PokemonStatsStage
    \/ PokemonTypesStage
    \/ PokemonAbilitiesStage
    \/ PokemonMovesStage
    \/ LoadAllTypeData
    \/ TypeEffectivenessStage

----------------------------------------------------------------------------
(* PokemonApiClient (src/src/ingestion/api_client.py) and the client         *)
(* instances of a pipeline run.  Time is counted in whole seconds; the clock *)
(* never runs backwards and time.sleep sleeps at least as long as asked.     *)

MaxTime == 8     \* the second at which the clock stops the run
MaxGets == 2     \* get calls in one run

rate_limit == 20
max_tries == 5
cache_dir == "cache"
request_interval == 60 \div rate_limit

\* every fetcher constructs a PokemonApiClient of its own
Clients == {"PokemonFetcher", "TypeFetcher", "AbilityFetcher"}

\* an endpoint string, cut into its pieces; "/" and "?" are pieces of their own
Endpoints == {<<"pokemon", "/", "1">>, <<"pokemon", "?", "1">>, <<"type", "/", "1">>}

\* JSON values, by their text; None is Python's None, Failure a request that
\* raised (transport error, non-2xx status from raise_for_status, or a body
\* that response.json() cannot decode)
None == "None"
Failure == "RequestException"
Bodies == {"{}", "{id:1}", "{id:2}"}

\* Python truthiness, as `if cached_data:` tests it
Falsy == {"None", "{}", "[]", "null", "false", "0"}
Truthy(data) == data \notin Falsy

\* seconds that time.sleep may return late, that a request may take, and that
\* the retry decorator may pause before the next try
Oversleep == {0, 1}
Durations == {0, 1}
Pauses == {0, 1}

\* a path that keeps the endpoint's characters as they are
path_as_is(endpoint) == <<cache_dir, "/">> \o endpoint \o <<".json">>

_get_cache_path(endpoint) ==
    <<cache_dir, "/">>
       \o [i \in 1..Len(endpoint) |->
             IF endpoint[i] \in {"/", "?"} THEN "_" ELSE endpoint[i]]
       \o <<".json">>

_get_from_cache(files, endpoint) ==
    IF _get_cache_path(endpoint) \in DOMAIN files
    THEN files[_get_cache_path(endpoint)]
    ELSE None

_save_to_cache(files, endpoint, data) ==
    [p \in DOMAIN files \cup {_get_cache_path(endpoint)} |->
        IF p = _get_cache_path(endpoint) THEN data ELSE files[p]]

\* a throttle that never sleeps
no_wait(current_time, last_request) == 0

\* the seconds _rate_limit_wait asks time.sleep for (0: it does not sleep)
wait_time(current_time, last_request) ==
    IF current_time - last_request < request_interval
    THEN request_interval - (current_time - last_request)
    ELSE 0

\* a save that ignores use_cache
save_always(files, endpoint, data, use_cache) == _save_to_cache(files, endpoint, data)

\* a client that writes the cache file before it looks at the response
save_failed(files, endpoint, use_cache) ==
    IF use_cache THEN _save_to_cache(files, endpoint, None) ELSE files

\* the cache after a request that raised: response.raise_for_status() and
\* response.json() come before _save_to_cache, which is never reached
keep_cache(files, endpoint, use_cache) == files

\* the cache after a request that returned data
save_fetched(files, endpoint, data, use_cache) ==
    IF use_cache THEN _save_to_cache(files, endpoint, data) ELSE files

NoReq == [client |-> "", endpoint |-> <<>>, use_cache |-> FALSE, tries |-> 0]

ClientInit ==
    /\ now = request_interval
    /\ last_request_time = [c \in Clients |-> 0]
    /\ cache = <<>>
    /\ req = NoReq
    /\ out = [client |-> "", endpoint |-> <<>>, use_cache |-> FALSE, tries |-> 0,
              result |-> "none", data |-> None, began |-> 0, slept |-> 0, at |-> {}]
    /\ net = [c \in Clients |-> {}]
    /\ gets = 0

\* what one run of get's body did: `at` holds the second its request was sent
Did(c, endpoint, use_cache, k, t, result, data, slept, at) ==
    [client |-> c, endpoint |-> endpoint, use_cache |-> use_cache, tries |-> k,
     result |-> result, data |-> data, began |-> t, slept |-> slept, at |-> at]

\* a decorator that allows twice the tries and one more
give_up_late(k) == k >= 2 * max_tries + 1

\* a decorator that gives up one try early
give_up_early(k) == k >= max_tries - 1

\* backoff.on_exception(..., max_tries=5): after the k-th failed try the
\* decorator raises the failure instead of trying again
give_up(k) == k >= max_tries

\* one run of the body of get, the k-th try of a call, begun at second t
get(c, endpoint, use_cache, k, t) ==
    LET cached_data == IF use_cache THEN _get_from_cache(cache, endpoint) ELSE None
    IN IF use_cache /\ Truthy(cached_data)
       THEN /\ out' = Did(c, endpoint, use_cache, k, t, "cached", cached_data, 0, {})
            /\ req' = NoReq
            /\ now' = t
            /\ UNCHANGED <<last_request_time, cache, net>>
       ELSE \E late \in Oversleep, took \in Durations, response \in Bodies \cup {Failure} :
               LET asked == wait_time(t, last_request_time[c])
                   slept == IF asked > 0 THEN asked + late ELSE 0
                   sent == t + slept
               IN /\ late = 0 \/ asked > 0
                  /\ now' = sent + took
                  /\ last_request_time' = [last_request_time EXCEPT ![c] = sent]
                  /\ net' = [net EXCEPT ![c] = {sent}]
                  /\ IF response = Failure
                     THEN /\ cache' = keep_cache(cache, endpoint, use_cache)
                          /\ out' = Did(c, endpoint, use_cache, k, t,
                                        IF give_up(k) THEN "raised" ELSE "retry",
                                        None, slept, {sent})
                          /\ req' = IF give_up(k)
                                    THEN NoReq
                                    ELSE [client |-> c, endpoint |-> endpoint,
                                          use_cache |-> use_cache, tries |-> k]
                     ELSE /\ cache' = save_fetched(cache, endpoint, response, use_cache)
                          /\ out' = Did(c, endpoint, use_cache, k, t, "fetched",
                                        response, slept, {sent})
                          /\ req' = NoReq

\* a caller starts a get call: its first try
Get ==
    /\ req = NoReq
    /\ gets < MaxGets
    /\ \E c \in Clients, endpoint \in Endpoints, use_cache \in BOOLEAN :
          get(c, endpoint, use_cache, 1, now)
    /\ now' <= MaxTime
    /\ gets' = gets + 1
    /\ UNCHANGED <<lvars, io>>

\* the retry decorator runs the body again after a failed try
Retry ==
    /\ req # NoReq
    /\ \E pause \in Pauses :
          get(req.client, req.endpoint, req.use_cache, req.tries + 1, now + pause)
    /\ now' <= MaxTime
    /\ UNCHANGED gets
    /\ UNCHANGED <<lvars, io>>

\* a second passes between two get calls (the caller transforms, loads, logs)
Elapse ==
    /\ req = NoReq
    /\ now < MaxTime
    /\ now' = now + 1
    /\ UNCHANGED <<last_request_time, cache, req, out, net, gets>>
    /\ UNCHANGED <<lvars, io>>

ClientNext ==
    \/ Get
    \/ Retry
    \/ Elapse

\* One get call followed to its end, however long its tries take: the first
\* call of a run
FirstGet ==
    /\ req = NoReq
    /\ gets = 0
    /\ \E c \in Clients, endpoint \in Endpoints, use_cache \in BOOLEAN :
          get(c, endpoint, use_cache, 1, now)
    /\ gets' = gets + 1
    /\ UNCHANGED <<lvars, io>>

NextTry ==
    /\ req # NoReq
    /\ \E pause \in Pauses :
          get(req.client, req.endpoint, req.use_cache, req.tries + 1, now + pause)
    /\ UNCHANGED gets
    /\ UNCHANGED <<lvars, io>>

RetryNext ==
    \/ FirstGet
    \/ NextTry

----------------------------------------------------------------------------
(* The fetchers' batch calls: src/src/ingestion/{pokemon,type,ability}_fetcher.py. *)
(* A call of get is taken by its outcome: it returns data or, its tries used  *)
(* up, raises.                                                                *)

\* no call has been made
Idle == [op |-> "none"]

MaxItems == 3    \* longest list of items one batch call works through
MaxTopN == 2     \* largest top_n asked of recommend_counter_types

\* entries of a list response: a named resource, or one that lacks its name
Entries == {[name |-> "a", url |-> "u"], [name |-> "b", url |-> "u"], [url |-> "u"]}

\* for item in items: try: <fetch the item>; append / except Exception: <log>
\* oks[i]: the gets for the i-th item return data; reads: the keys of the item
\* the try block indexes; logs: the keys of the item the handler indexes
RECURSIVE Batch(_, _, _, _, _, _)
Batch(items, oks, reads, logs, i, acc) ==
    IF i > Len(items) THEN acc
    ELSE LET tried == [acc EXCEPT !.attempted = Append(@, i)]
         IN IF reads \subseteq DOMAIN items[i] /\ oks[i]
            THEN Batch(items, oks, reads, logs, i + 1,
                       [tried EXCEPT !.returned = Append(@, items[i])])
            ELSE IF logs \subseteq DOMAIN items[i]
                 THEN Batch(items, oks, reads, logs, i + 1, tried)
                 ELSE [tried EXCEPT !.raised = "KeyError"]

\* a batch call: listed is FALSE when the get of the list or count raised
Fetched(op, listed, items, oks, reads, logs) ==
    IF listed
    THEN Batch(items, oks, reads, logs, 1,
               [op |-> op, listed |-> TRUE, items |-> items, oks |-> oks,
                attempted |-> <<>>, returned |-> <<>>, raised |-> "none"])
    ELSE [op |-> op, listed |-> FALSE, items |-> <<>>, oks |-> <<>>,
          attempted |-> <<>>, returned |-> <<>>, raised |-> "RequestException"]

Ids(first, end_id) == [i \in 1..(end_id - first + 1) |-> [id |-> first + i - 1]]

\* which items' gets return data: none for an item whose endpoint cannot be named
Outcomes(items, reads) ==
    {oks \in [1..Len(items) -> BOOLEAN] :
        \A i \in 1..Len(items) : oks[i] => reads \subseteq DOMAIN items[i]}

\* the identifiers whose detail endpoint a batch call asked for, in order: the
\* attempted items whose try block got as far as its fetch
RECURSIVE Requested(_, _, _, _)
Requested(items, attempted, reads, key) ==
    IF attempted = <<>> THEN <<>>
    ELSE (IF reads \subseteq DOMAIN items[Head(attempted)]
          THEN <<items[Head(attempted)][key]>> ELSE <<>>)
         \o Requested(items, Tail(attempted), reads, key)

\* how one call of get ends: it returns after `tries` runs of its body that
\* sent a request (none when the cache served it), or raises when the
\* decorator gives up
GetOutcomes ==
    {[ok |-> TRUE, tries |-> k] :
        k \in {j \in {0, 1, max_tries} : \A i \in 1..(j - 1) : ~give_up(i)}}
    \cup {[ok |-> FALSE, tries |-> k] :
            k \in {j \in 1..(3 * max_tries) :
                     give_up(j) /\ \A i \in 1..(j - 1) : ~give_up(i)}}

\* the gets of one fetch_pokemon_detail: the second is made if the first returns
DetailOutcomes ==
    {<<g>> : g \in {h \in GetOutcomes : ~h.ok}}
    \cup {<<g, h>> : g \in {h \in GetOutcomes : h.ok}, h \in GetOutcomes}

\* the response of pokemon/{identifier}
PokemonBody(identifier) ==
    [name |-> identifier,
     species |-> [url |-> <<"https://pokeapi.co", "/api/v2/", "pokemon-species", "/">>
                           \o identifier \o <<"/">>]]

\* species_url.split('/api/v2/')[1]
species_endpoint(species_url) ==
    LET cuts == {i \in 1..Len(species_url) : species_url[i] = "/api/v2/"}
        later == {i \in cuts : i > Min(cuts)}
    IN SubSeq(species_url, Min(cuts) + 1,
              IF later = {} THEN Len(species_url) ELSE Min(later) - 1)

\* a fetch_pokemon_detail that returns the Pokemon without its species data
\* when the species request fails
detail_without_species(identifier, gs) ==
    [ok |-> gs[1].ok,
     gets |-> <<<<"pokemon", "/">> \o identifier>>,
     attempts |-> gs[1].tries,
     files |-> IF gs[1].ok THEN {_get_cache_path(<<"pokemon", "/">> \o identifier)} ELSE {},
     data |-> PokemonBody(identifier)]

\* gs: the outcomes of the gets it makes.  gets: the endpoints it called get
\* for; attempts: the requests sent; files: the cache files its gets leave
fetch_pokemon_detail(identifier, gs) ==
    LET endpoint == <<"pokemon", "/">> \o identifier
        pokemon_data == PokemonBody(identifier)
        species == species_endpoint(pokemon_data.species.url)
    IN IF ~gs[1].ok
       THEN [ok |-> FALSE, gets |-> <<endpoint>>, attempts |-> gs[1].tries,
             files |-> {}, data |-> pokemon_data]
       ELSE IF ~gs[2].ok
       THEN [ok |-> FALSE, gets |-> <<endpoint, species>>,
             attempts |-> gs[1].tries + gs[2].tries,
             files |-> {_get_cache_path(endpoint)}, data |-> pokemon_data]
       ELSE [ok |-> TRUE, gets |-> <<endpoint, species>>,
             attempts |-> gs[1].tries + gs[2].tries,
             files |-> {_get_cache_path(endpoint), _get_cache_path(species)},
             data |-> [name |-> pokemon_data.name, species |-> pokemon_data.species,
                       species_details |-> [name |-> identifier]]]

fetch_pokemon_batch ==
    /\ io = Idle
    /\ \E start_id \in 1..2, end_id \in 0..MaxItems :
          \E gs \in [1..Len(Ids(start_id, end_id)) -> DetailOutcomes] :
             LET items == Ids(start_id, end_id)
                 details == [i \in 1..Len(items) |->
                               fetch_pokemon_detail(str(items[i].id), gs[i])]
                 r == Fetched("fetch_pokemon_batch", TRUE, items,
                              [i \in 1..Len(items) |-> details[i].ok], {}, {})
             IN io' = [op |-> r.op, listed |-> r.listed, items |-> r.items,
                       oks |-> r.oks, attempted |-> r.attempted,
                       returned |-> r.returned, raised |-> r.raised,
                       start_id |-> start_id, end_id |-> end_id, gs |-> gs,
                       details |-> details]
    /\ UNCHANGED <<lvars, cvars>>

batch_size == 100
MaxTotal == 201     \* largest total count the list endpoint reports

\* counts around the page borders
Totals == {0, 1, batch_size - 1, batch_size, batch_size + 1, 2 * batch_size, MaxTotal}

\* a loop that starts a page at every multiple of batch_size up to the total
RECURSIVE ListRequestsThroughTotal(_, _)
ListRequestsThroughTotal(total_pokemon, offset) ==
    IF offset > total_pokemon THEN <<>>
    ELSE <<[limit |-> IF batch_size < total_pokemon - offset
                      THEN batch_size ELSE total_pokemon - offset,
            offset |-> offset]>>
         \o ListRequestsThroughTotal(total_pokemon, offset + batch_size)

\* for offset in range(0, total_pokemon, batch_size):
\*     batch_limit = min(batch_size, total_pokemon - offset)
RECURSIVE ListRequests(_, _)
ListRequests(total_pokemon, offset) ==
    IF offset >= total_pokemon THEN <<>>
    ELSE <<[limit |-> IF batch_size < total_pokemon - offset
                      THEN batch_size ELSE total_pokemon - offset,
            offset |-> offset]>>
         \o ListRequests(total_pokemon, offset + batch_size)

RECURSIVE Flatten(_)
Flatten(pages) == IF pages = <<>> THEN <<>> ELSE Head(pages) \o Flatten(Tail(pages))

\* counted: the get of 'pokemon' returned; pages: the results of the list
\* responses; stop: the list request that raises (0: none), which ends the call
fetch_all_pokemon ==
    /\ io = Idle
    /\ \E counted \in BOOLEAN, total_pokemon \in Totals :
        \E pages \in [1..Len(ListRequests(total_pokemon, 0)) -> SeqsUpTo(Entries, MaxItems)],
           stop \in 0..Len(ListRequests(total_pokemon, 0)) :
            LET list_requests == ListRequests(total_pokemon, 0)
                seen == IF stop = 0 THEN pages ELSE SubSeq(pages, 1, stop - 1)
                pokemon_list == Flatten(seen)
            IN /\ Len(Flatten(pages)) <= MaxItems
               /\ counted \/ (total_pokemon = 0 /\ stop = 0)
               /\ \E oks \in Outcomes(pokemon_list, {"name"}) :
                    LET r == Fetched("fetch_all_pokemon", counted, pokemon_list, oks,
                                     {"name"}, {})
                    IN io' = [op |-> r.op, listed |-> counted /\ stop = 0,
                              items |-> r.items, oks |-> r.oks,
                              attempted |-> r.attempted,
                              returned |-> IF stop = 0 THEN r.returned ELSE <<>>,
                              raised |-> IF stop = 0 THEN r.raised ELSE "RequestException",
                              total |-> total_pokemon,
                              list_requests |->
                                 IF ~counted THEN <<>>
                                 ELSE IF stop = 0 THEN list_requests
                                 ELSE SubSeq(list_requests, 1, stop),
                              members |-> pokemon_list,
                              requested |-> Requested(r.items, r.attempted, {"name"}, "name")]
    /\ UNCHANGED <<lvars, cvars>>

fetch_all_types_with_effectiveness ==
    /\ io = Idle
    /\ \E listed \in BOOLEAN, types_list \in SeqsUpTo(Entries, MaxItems) :
          \E oks \in Outcomes(types_list, {"name"}) :
             LET r == Fetched("fetch_all_types_with_effectiveness", listed, types_list,
                              oks, {"name"}, {"name"})
             IN io' = [op |-> r.op, listed |-> r.listed, items |-> r.items,
                       oks |-> r.oks, attempted |-> r.attempted,
                       returned |-> r.returned, raised |-> r.raised,
                       members |-> r.items,
                       requested |-> Requested(r.items, r.attempted, {"name"}, "name")]
    /\ UNCHANGED <<lvars, cvars>>

\* the abilities the API has, by id, and its answer to get('ability'): their
\* number and their entries
AbilityLists ==
    {[count |-> Cardinality(S),
      results |-> [i \in 1..Cardinality(S) |->
                     [id |-> CHOOSE x \in S : Cardinality({y \in S : y < x}) = i - 1]]] :
        S \in {T \in SUBSET (1..(MaxItems + 1)) : Cardinality(T) <= MaxItems}}

fetch_all_abilities ==
    /\ io = Idle
    /\ \E listed \in BOOLEAN, ability_list \in AbilityLists :
          \E oks \in Outcomes(Ids(1, ability_list.count), {}) :
             LET r == Fetched("fetch_all_abilities", listed,
                              Ids(1, ability_list.count), oks, {}, {})
             IN /\ \A i \in 1..ability_list.count :
                     oks[i] => \E j \in 1..ability_list.count :
                                  ability_list.results[j].id = i
                /\ io' = [op |-> r.op, listed |-> r.listed, items |-> r.items,
                          oks |-> r.oks, attempted |-> r.attempted,
                          returned |-> r.returned, raised |-> r.raised,
                          members |-> IF listed THEN ability_list.results ELSE <<>>,
                          requested |-> Requested(r.items, r.attempted, {}, "id")]
    /\ UNCHANGED <<lvars, cvars>>

FetchNext ==
    \/ fetch_pokemon_batch
    \/ fetch_all_pokemon
    \/ fetch_all_types_with_effectiveness
    \/ fetch_all_abilities

----------------------------------------------------------------------------
(* TypeAnalyzer: src/src/analytics/type_analyzer.py, reading the store with   *)
(* textual SQL.  Multipliers are counted in quarters (4 is 1.0).  A value read *)
(* from the NUMERIC column type_effectiveness.effectiveness arrives as a       *)
(* decimal.Decimal (dec); the 1.0 of fillna and of the profile's accumulator   *)
(* is a float, and Python refuses to multiply a float by a Decimal.            *)

\* effectiveness records over every ordered pair of types: 0.0, 0.5 and 2.0
PairItems ==
    {[attack_type_id |-> a, defense_type_id |-> d, effectiveness |-> e] :
        a \in TypeIds, d \in TypeIds, e \in {0} \cup Multipliers}

\* the name of the type with an id: JOIN types t ON ... = t.id
TypeName(store, id) ==
    store.types[CHOOSE i \in 1..Len(store.types) : store.types[i].id = id].name

\* SELECT at.name, dt.name, te.effectiveness FROM type_effectiveness te JOIN ...
EffectivenessRows(store) ==
    [i \in 1..Len(store.type_effectiveness) |->
        [attacking_type |-> TypeName(store, store.type_effectiveness[i].attack_type_id),
         defending_type |-> TypeName(store, store.type_effectiveness[i].defense_type_id),
         effectiveness |-> store.type_effectiveness[i].effectiveness]]

\* pivot raises ValueError when two rows share (index, column); fillna(1.0)
get_effectiveness_matrix(store) ==
    LET flat == EffectivenessRows(store)
        at(a, d) == {i \in 1..Len(flat) :
                        flat[i].attacking_type = a /\ flat[i].defending_type = d}
        index == {flat[i].attacking_type : i \in 1..Len(flat)}
        columns == {flat[i].defending_type : i \in 1..Len(flat)}
    IN IF \E i, j \in 1..Len(flat) :
             i # j /\ flat[i].attacking_type = flat[j].attacking_type
                   /\ flat[i].defending_type = flat[j].defending_type
       THEN [exc |-> "ValueError", index |-> {}, columns |-> {}, cell |-> <<>>]
       ELSE [exc |-> "none", index |-> index, columns |-> columns,
             cell |-> [x \in index \X columns |->
                         IF at(x[1], x[2]) = {}
                         THEN [dec |-> FALSE, q |-> 4]
                         ELSE [dec |-> TRUE,
                               q |-> flat[CHOOSE i \in at(x[1], x[2]) : TRUE].effectiveness]]]

\* SELECT t.name FROM pokemon_types pt JOIN types t ... WHERE pt.pokemon_id = :pokemon_id
\* ORDER BY pt.slot
TypesOf(store, pokemon_id) ==
    LET rows == SelectSeq(store.pokemon_types, LAMBDA r : r.pokemon_id = pokemon_id)
        by_slot == SortSeq(rows, LAMBDA x, y : x.slot < y.slot)
    IN [i \in 1..Len(by_slot) |-> TypeName(store, by_slot[i].type_id)]

\* combined_effectiveness = 1.0; for defense_type in pokemon_types:
\*     if defense_type in matrix.columns: combined_effectiveness *= matrix.loc[...]
RECURSIVE Combined(_, _, _, _)
Combined(matrix, attack_type, pokemon_types, acc) ==
    IF pokemon_types = <<>> \/ acc.exc # "none" THEN acc
    ELSE LET d == Head(pokemon_types) IN
         IF d \notin matrix.columns
         THEN Combined(matrix, attack_type, Tail(pokemon_types), acc)
         ELSE IF matrix.cell[<<attack_type, d>>].dec
         THEN [acc EXCEPT !.exc = "TypeError"]
         ELSE Combined(matrix, attack_type, Tail(pokemon_types),
                       [acc EXCEPT !.q = (@ * matrix.cell[<<attack_type, d>>].q) \div 4])

\* the rows of a frame, sorted by effectiveness descending
Descending(rows) == SortSeq(rows, LAMBDA x, y : x.effectiveness > y.effectiveness)

SetToSeq(S) ==
    CHOOSE f \in [1..Cardinality(S) -> S] : \A i, j \in 1..Cardinality(S) : i # j => f[i] # f[j]

get_pokemon_weakness_profile(store, pokemon_id) ==
    LET pokemon_types == TypesOf(store, pokemon_id)
        matrix == get_effectiveness_matrix(store)
        against == [a \in matrix.index |->
                      Combined(matrix, a, pokemon_types, [exc |-> "none", q |-> 4])]
    IN IF pokemon_types = <<>> THEN [exc |-> "none", rows |-> <<>>]
       ELSE IF matrix.exc # "none" THEN [exc |-> matrix.exc, rows |-> <<>>]
       ELSE IF \E a \in matrix.index : against[a].exc # "none"
       THEN [exc |-> "TypeError", rows |-> <<>>]
       ELSE [exc |-> "none",
             rows |-> Descending([i \in 1..Cardinality(matrix.index) |->
                         [attacking_type |-> SetToSeq(matrix.index)[i],
                          effectiveness |-> against[SetToSeq(matrix.index)[i]].q]])]

\* DataFrame.head(n): the first n rows; for n < 0 all but the last -n rows
head(rows, n) ==
    SubSeq(rows, 1, IF n >= 0 THEN (IF n < Len(rows) THEN n ELSE Len(rows))
                    ELSE (IF Len(rows) + n > 0 THEN Len(rows) + n ELSE 0))

recommend_counter_types(store, pokemon_id, top_n) ==
    LET weakness_profile == get_pokemon_weakness_profile(store, pokemon_id)
        counters == Descending(SelectSeq(weakness_profile.rows,
                                         LAMBDA r : r.effectiveness > 4))
    IN IF weakness_profile.exc # "none" THEN weakness_profile
       ELSE [exc |-> "none",
             rows |-> IF Len(counters) > top_n THEN head(counters, top_n) ELSE counters]


----------------------------------------------------------------------------
(* PokemonTransformer: src/src/transformation/pokemon_transformer.py.  A URL   *)
(* is the sequence of its characters; a raw record is the PokeAPI document.    *)

MaxMoves == 1    \* longest list of raw move entries of one Pokemon

\* rstrip as the identity
keep_slashes(url) == url

\* url.rstrip('/') keeps no trailing slash
RECURSIVE rstrip(_)
rstrip(url) == IF url # <<>> /\ url[Len(url)] = "/"
               THEN rstrip(SubSeq(url, 1, Len(url) - 1)) ELSE url

\* url.split('/')[-1]: what follows the last slash
RECURSIVE last_part(_)
last_part(url) == IF url = <<>> \/ url[Len(url)] = "/" THEN <<>>
                  ELSE last_part(SubSeq(url, 1, Len(url) - 1)) \o <<url[Len(url)]>>

\* int() of a string of decimal digits
RECURSIVE int(_)
int(part) == IF part = <<>> THEN 0
             ELSE 10 * int(SubSeq(part, 1, Len(part) - 1))
                  + (CHOOSE d \in 0..9 : Digits[d + 1] = part[Len(part)])

_extract_id_from_url(url) == int(last_part(rstrip(url)))

allow_list == {"sword-shield", "sun-moon", "x-y"}

\* the last allowed detail instead of the first
last_match(details) ==
    LET hits == {i \in 1..Len(details) : details[i].version_group.name \in allow_list}
    IN IF hits = {} THEN 0 ELSE CHOOSE i \in hits : \A j \in hits : i >= j

\* the detail the inner loop stops at: the first one of an allowed version group
first_match(details) ==
    LET hits == {i \in 1..Len(details) : details[i].version_group.name \in allow_list}
    IN IF hits = {} THEN 0 ELSE CHOOSE i \in hits : \A j \in hits : i <= j

\* for move_entry in raw_data.get('moves', []): ... moves.append(move); break
RECURSIVE move_rows(_, _)
move_rows(id, entries) ==
    IF entries = <<>> THEN <<>>
    ELSE LET move_entry == Head(entries)
             k == first_match(move_entry.version_group_details)
         IN (IF k = 0 THEN <<>>
             ELSE <<[pokemon_id |-> id,
                     move_id |-> _extract_id_from_url(move_entry.move.url),
                     level_learned_at |-> move_entry.version_group_details[k].level_learned_at,
                     learn_method |-> move_entry.version_group_details[k].move_learn_method.name]>>)
            \o move_rows(id, Tail(entries))

transform_pokemon(raw_data) ==
    [pokemon |-> [id |-> raw_data.id, name |-> raw_data.name,
                  height |-> raw_data.height, weight |-> raw_data.weight,
                  base_experience |-> raw_data.base_experience,
                  is_default |-> raw_data.is_default, order_num |-> raw_data.order],
     stats |-> [i \in 1..Len(raw_data.stats) |->
                  [pokemon_id |-> raw_data.id,
                   stat_name |-> raw_data.stats[i].stat.name,
                   base_value |-> raw_data.stats[i].base_stat]],
     types |-> [i \in 1..Len(raw_data.types) |->
                  [pokemon_id |-> raw_data.id,
                   type_id |-> _extract_id_from_url(raw_data.types[i].type.url),
                   slot |-> raw_data.types[i].slot]],
     abilities |-> [i \in 1..Len(raw_data.abilities) |->
                  [pokemon_id |-> raw_data.id,
                   ability_id |-> _extract_id_from_url(raw_data.abilities[i].ability.url),
                   is_hidden |-> raw_data.abilities[i].is_hidden,
                   slot |-> raw_data.abilities[i].slot]],
     moves |-> move_rows(raw_data.id, raw_data.moves)]

\* resource URLs as PokeAPI writes them, with and without the trailing slash
ResourceIds == {9, 13}
Url(kind, n, slash) == <<"v", "2", "/">> \o kind \o <<"/">> \o str(n) \o slash
Urls(kind) == {Url(kind, n, slash) : n \in ResourceIds, slash \in {<<>>, <<"/">>}}

RawStats == {[stat |-> [name |-> "hp"], base_stat |-> 35],
             [stat |-> [name |-> "speed"], base_stat |-> 90]}
RawTypes == {[type |-> [url |-> u], slot |-> 1] : u \in Urls(<<"t">>)}
RawPokemonAbilities == {[ability |-> [url |-> Url(<<"a">>, 9, <<"/">>)], is_hidden |-> h, slot |-> 1] :
                    h \in BOOLEAN}
Details == {[version_group |-> [name |-> "red-blue"], level_learned_at |-> 1,
             move_learn_method |-> [name |-> "level-up"]],
            [version_group |-> [name |-> "x-y"], level_learned_at |-> 5,
             move_learn_method |-> [name |-> "level-up"]],
            [version_group |-> [name |-> "sword-shield"], level_learned_at |-> 0,
             move_learn_method |-> [name |-> "machine"]]}
RawMoves == {[move |-> [url |-> Url(<<"m">>, 13, <<"/">>)], version_group_details |-> d] :
                d \in SeqsUpTo(Details, MaxLen)}

RawPokemon ==
    {[id |-> 25, name |-> "pikachu", height |-> 4, weight |-> 60,
      base_experience |-> 112, is_default |-> TRUE, order |-> 35,
      stats |-> st, types |-> ty, abilities |-> ab, moves |-> mv] :
        st \in SeqsUpTo(RawStats, MaxLen) \ {<<>>},
        ty \in {<<t>> : t \in RawTypes},
        ab \in {<<a>> : a \in RawPokemonAbilities},
        mv \in SeqsUpTo(RawMoves, MaxMoves)}

TransformPokemon ==
    /\ \E raw_data \in RawPokemon :
        io' = [op |-> "transform_pokemon", raw_data |-> raw_data,
               transformed_data |-> transform_pokemon(raw_data)]
    /\ UNCHANGED <<lvars, cvars>>

\* a list.extend that puts the new rows in front
extend_in_front(rows, more) == more \o rows

\* transformed_batch[key].extend(transformed_data[key])
extend(rows, more) == rows \o more

\* for raw_data in raw_data_batch: transformed_data = self.transform_pokemon(raw_data) ...
RECURSIVE transform_pokemon_batch(_, _)
transform_pokemon_batch(raw_data_batch, transformed_batch) ==
    IF raw_data_batch = <<>> THEN transformed_batch
    ELSE LET transformed_data == transform_pokemon(Head(raw_data_batch))
         IN transform_pokemon_batch(Tail(raw_data_batch),
                [pokemon |-> Append(transformed_batch.pokemon, transformed_data.pokemon),
                 stats |-> extend(transformed_batch.stats, transformed_data.stats),
                 types |-> extend(transformed_batch.types, transformed_data.types),
                 abilities |-> extend(transformed_batch.abilities, transformed_data.abilities),
                 moves |-> extend(transformed_batch.moves, transformed_data.moves)])

\* the records of a batch: one stat each, with or without a move
BatchPokemon ==
    {r \in RawPokemon :
        /\ Len(r.stats) = 1
        /\ r.types[1].type.url = Url(<<"t">>, 13, <<"/">>)
        /\ ~r.abilities[1].is_hidden
        /\ \A i \in 1..Len(r.moves) :
              /\ Len(r.moves[i].version_group_details) = 1
              /\ r.moves[i].version_group_details[1].version_group.name = "x-y"}

TransformPokemonBatch ==
    /\ \E raw_data_batch \in SeqsUpTo(BatchPokemon, MaxLen) :
        io' = [op |-> "transform_pokemon_batch", raw_data_batch |-> raw_data_batch,
               transformed_batch |->
                  transform_pokemon_batch(raw_data_batch,
                      [pokemon |-> <<>>, stats |-> <<>>, types |-> <<>>,
                       abilities |-> <<>>, moves |-> <<>>])]
    /\ UNCHANGED <<lvars, cvars>>

TransformNext ==
    \/ TransformPokemon
    \/ TransformPokemonBatch

\* a store as the loader leaves it: the types, their relations, one Pokemon and
\* its type associations, each written by the loader's own method
Populate ==
    /\ db = EmptyStore
    /\ io = Idle
    /\ \E types_data \in SeqsUpTo(TheTypes \ {Malformed}, MaxLen),
          effectiveness_data \in SeqsUpTo(PairItems, MaxLen),
          pokemon_data \in OnePokemon \ {Malformed},
          pokemon_types_data \in SeqsUpTo(PokemonTypeItems, MaxLen) :
        LET types == load_types(EmptyStore, types_data, NoChoice)
            relations == load_type_effectiveness(types.db, effectiveness_data, NoChoice)
            pokemon == load_pokemon(relations.db, pokemon_data, NoChoice)
            its_types == load_pokemon_types(pokemon.db, pokemon_types_data, NoChoice)
        IN /\ types.exc = "none" /\ relations.exc = "none"
           /\ pokemon.exc = "none" /\ its_types.exc = "none"
           /\ db' = its_types.db
    /\ UNCHANGED <<pc, calls, last, cvars, io>>

GetEffectivenessMatrix ==
    /\ io' = [op |-> "get_effectiveness_matrix",
              matrix |-> get_effectiveness_matrix(db)]
    /\ UNCHANGED <<lvars, cvars>>

GetPokemonWeaknessProfile ==
    /\ \E pokemon_id \in PokemonIds :
        io' = [op |-> "get_pokemon_weakness_profile", pokemon_id |-> pokemon_id,
               profile |-> get_pokemon_weakness_profile(db, pokemon_id)]
    /\ UNCHANGED <<lvars, cvars>>

RecommendCounterTypes ==
    /\ \E pokemon_id \in PokemonIds, top_n \in -1..MaxTopN :
        io' = [op |-> "recommend_counter_types", pokemon_id |-> pokemon_id,
               top_n |-> top_n,
               counters |-> recommend_counter_types(db, pokemon_id, top_n)]
    /\ UNCHANGED <<lvars, cvars>>

AnalyticsNext ==
    \/ Populate
    \/ GetEffectivenessMatrix
    \/ GetPokemonWeaknessProfile
    \/ RecommendCounterTypes

----------------------------------------------------------------------------
(* The entry points: src/src/dags/pokemon_etl.py and main of src/src/main.py. *)
(* A run is the list of calls it still has to make and the list it has made.   *)

\* fetch_and_load_type_data
TypeIngestion ==
    <<"fetch_all_types_with_effectiveness", "transform_type_batch", "load_all_type_data">>

\* fetch_and_load_pokemon_data(pokemon_range), pokemon_range None for --all-pokemon
PokemonIngestion(all_pokemon) ==
    <<IF all_pokemon THEN "fetch_all_pokemon" ELSE "fetch_pokemon_batch",
      "transform_pokemon_batch", "load_all_pokemon_data">>

\* run_analytics(analytics_type)
Analytics(type) ==
    (IF type \in {"stats", "all"}
     THEN <<"get_top_pokemon_by_total_base_stats", "get_type_distribution">> ELSE <<>>)
    \o (IF type \in {"types", "all"}
        THEN <<"find_best_attacking_types", "find_best_defensive_types">> ELSE <<>>)

\* the tasks of the DAG in the order of their dependencies; load_data makes
\* its three loader calls in the order of its statements
DagTasks ==
    <<"fetch_all_types_with_effectiveness", "transform_type_batch",
      "fetch_all_abilities", "transform_ability_batch",
      "fetch_pokemon_batch", "transform_pokemon_batch",
      "load_all_type_data", "load_all_ability_data", "load_all_pokemon_data">>

Arguments ==
    [command : {"fetch"}, pokemon : BOOLEAN, types : BOOLEAN, all : BOOLEAN,
     all_pokemon : BOOLEAN, type : {"all"}]
    \cup [command : {"analytics"}, pokemon : {FALSE}, types : {FALSE}, all : {FALSE},
          all_pokemon : {FALSE}, type : {"stats", "types", "all"}]
    \cup [command : {"none"}, pokemon : {FALSE}, types : {FALSE}, all : {FALSE},
          all_pokemon : {FALSE}, type : {"all"}]

\* the calls main makes for parsed arguments
Commands(args) ==
    IF args.command = "fetch"
    THEN IF args.all \/ (args.pokemon /\ args.types)
         THEN TypeIngestion \o PokemonIngestion(args.all_pokemon)
         ELSE IF args.pokemon THEN PokemonIngestion(args.all_pokemon)
         ELSE IF args.types THEN TypeIngestion
         ELSE <<"print_help">>
    ELSE IF args.command = "analytics" THEN Analytics(args.type)
    ELSE <<"print_help">>

\* the scheduler starts a run of the DAG pokemon_etl
pokemon_etl ==
    /\ io = Idle
    /\ io' = [op |-> "run", entry |-> "pokemon_etl", todo |-> DagTasks, done |-> <<>>]
    /\ UNCHANGED <<lvars, cvars>>

\* main is started with some command line
main ==
    /\ io = Idle
    /\ \E args \in Arguments :
        io' = [op |-> "run", entry |-> "main", args |-> args,
               todo |-> Commands(args), done |-> <<>>]
    /\ UNCHANGED <<lvars, cvars>>

\* the run makes its next call
Proceed ==
    /\ io.op = "run"
    /\ io.todo # <<>>
    /\ io' = [io EXCEPT !.todo = Tail(@), !.done = Append(@, Head(io.todo))]
    /\ UNCHANGED <<lvars, cvars>>

PipelineNext ==
    \/ pokemon_etl
    \/ main
    \/ Proceed

----------------------------------------------------------------------------
(* Two DatabaseLoader sessions on one store: each runs load_pokemon_stats in *)
(* a transaction of its own (sessionmaker, src/src/models/base.py:15).  The  *)
(* store runs them at its default isolation level, read committed: a query   *)
(* sees the rows committed before it, and no constraint of pokemon_stats     *)
(* names (pokemon_id, stat_name).                                            *)

Sessions == {"A", "B"}

NotCalled == [pc |-> "idle", stats_data |-> <<>>, todo |-> <<>>,
              work |-> CleanSession, exc |-> "none"]

\* the store before the two loads: the Pokemon is there, its stat row may be
Stores ==
    {[EmptyStore EXCEPT
         !.pokemon = <<Construct(PokemonM, CHOOSE x \in PokemonItems : x.name = "a")>>,
         !.pokemon_stats = rows] :
       rows \in {<<>>} \cup {<<Construct(PokemonStatM, x)>> : x \in StatItems}}

OpenSessions ==
    /\ io = Idle
    /\ \E store \in Stores :
          io' = [op |-> "sessions", store |-> store,
                 session |-> [s \in Sessions |-> NotCalled]]
    /\ UNCHANGED <<lvars, cvars>>

\* a session enters load_pokemon_stats(stats_data)
CallLoadPokemonStats ==
    /\ io.op = "sessions"
    /\ \E s \in Sessions, stats_data \in SeqsUpTo(StatInputs, MaxLen) :
          /\ io.session[s].pc = "idle"
          /\ io' = [io EXCEPT !.session[s] =
                       [NotCalled EXCEPT !.pc = "loop", !.stats_data = stats_data,
                                         !.todo = stats_data]]
    /\ UNCHANGED <<lvars, cvars>>

\* one turn of the loop: the existence query on the committed rows, then the
\* update of the row found or the add of a new object; an exception leaves
\* the loop for the handler, which rolls back
ExistenceCheck ==
    /\ io.op = "sessions"
    /\ \E s \in Sessions :
          /\ io.session[s].pc = "loop"
          /\ io.session[s].todo # <<>>
          /\ \E first \in Firsts(io.store.pokemon_stats, PokemonStatU.key) :
                LET me == io.session[s]
                    work == UnitOfWork(io.store.pokemon_stats, PokemonStatM, PokemonStatU,
                                       <<Head(me.todo)>>, first, me.work)
                IN io' = [io EXCEPT !.session[s] =
                            IF work.exc # "none"
                            THEN [me EXCEPT !.pc = "done", !.exc = work.exc,
                                            !.work = CleanSession]
                            ELSE [me EXCEPT !.todo = Tail(me.todo), !.work = work]]
    /\ UNCHANGED <<lvars, cvars>>

\* self.db.commit(): the session's updates and inserts reach the store
Commit ==
    /\ io.op = "sessions"
    /\ \E s \in Sessions :
          /\ io.session[s].pc = "loop"
          /\ io.session[s].todo = <<>>
          /\ LET me == io.session[s]
                 f == Flush(io.store, PokemonStatM, me.work)
             IN io' = [io EXCEPT
                          !.store = IF f.exc # "none"
                                    THEN OnException(io.store, PokemonStatM, me.work)
                                    ELSE [io.store EXCEPT !.pokemon_stats = f.tbl],
                          !.session[s] = [me EXCEPT !.pc = "done", !.exc = f.exc]]
    /\ UNCHANGED <<lvars, cvars>>

SessionsNext ==
    \/ OpenSessions
    \/ CallLoadPokemonStats
    \/ ExistenceCheck
    \/ Commit

Init == LoaderInit /\ ClientInit /\ io = Idle
Next == LoaderNext
Spec == Init /\ [][Next]_vars
SpecClient == Init /\ [][ClientNext]_vars
SpecRetry == Init /\ [][RetryNext]_vars
SpecFetch == Init /\ [][FetchNext]_vars
SpecAnalytics == Init /\ [][AnalyticsNext]_vars
SpecTransform == Init /\ [][TransformNext]_vars
SpecPipeline == Init /\ [][PipelineNext]_vars
SpecSessions == Init /\ [][SessionsNext]_vars

----------------------------------------------------------------------------
(* Properties of the loader *)

\* the schema, update rule and transformer output of each write method
Method(op) ==
    CASE op = "load_pokemon" ->
            [M |-> PokemonM, U |-> PokemonU, items |-> PokemonItems]
      [] op = "load_pokemon_stats" ->
            [M |-> PokemonStatM, U |-> PokemonStatU, items |-> StatItems]
      [] op = "load_types" ->
            [M |-> TypeM, U |-> TypeU, items |-> TypeItems]
      [] op = "load_type_effectiveness" ->
            [M |-> TypeEffectivenessM, U |-> TypeEffectivenessU,
             items |-> EffectivenessItems]
      [] op = "load_pokemon_types" ->
            [M |-> PokemonTypeM, U |-> PokemonTypeU, items |-> PokemonTypeItems]
      [] op = "load_all_ability_data" ->
            [M |-> AbilityM, U |-> AbilityU, items |-> TransformedAbilities]
      [] op = "_load_pokemon_ability" ->
            [M |-> PokemonAbilityM, U |-> PokemonAbilityU,
             items |-> PokemonAbilityItems]
      [] op = "_load_pokemon_move" ->
            [M |-> PokemonMoveM, U |-> PokemonMoveU, items |-> PokemonMoveItems]

WriteMethods == {"load_pokemon", "load_pokemon_stats", "load_types",
                 "load_type_effectiveness", "load_pokemon_types",
                 "load_all_ability_data", "_load_pokemon_ability",
                 "_load_pokemon_move"}

\* the methods that run their whole input list in one transaction
ListMethods == {"load_pokemon_stats", "load_types", "load_type_effectiveness",
                "load_pokemon_types", "load_all_ability_data"}

\* the rows of a table that carry an item's natural key
RowsOf(store, op, item) == Matches(store[Method(op).M.table], Method(op).U.key, item)

\* a row holds the column values an item gives
Holds(row, item) == \A c \in DOMAIN row \cap DOMAIN item : row[c] = item[c]

\* the parents that the loader has a load method for (every table but moves)
LoadableParentsPresent(store, op, item) ==
    MissingParents(store, Method(op).M, item) \subseteq {"moves"}

\* a step in which the loader ran something
LoaderStep == calls' = calls + 1 \/ pc # "idle"

\* a step that is one call of one write method: a direct call, or a composite
\* load's call of a list method
OneMethodCall ==
    /\ LoaderStep
    /\ last'.via = "" \/ last'.op \in ListMethods

\* C1: loading the same transformed entity in two successive load calls
\* leaves exactly one row for its natural key, holding the values of the
\* second load (for every entity type; the rows the entity refers to are in
\* the store).
C1_UpsertIdempotent ==
    [][(/\ calls' = calls + 1
        /\ last.via = "" /\ last'.via = ""
        /\ last.op \in WriteMethods /\ last'.op = last.op
        /\ Len(last.arg) = 1 /\ Len(last'.arg) = 1
        /\ last.arg[1] \in Method(last.op).items
        /\ last'.arg[1] \in Method(last.op).items
        /\ Key(last.arg[1], Method(last.op).U.key)
              = Key(last'.arg[1], Method(last.op).U.key)
        /\ MissingParents(db, Method(last.op).M, last'.arg[1]) = {})
       => /\ Cardinality(RowsOf(db', last'.op, last'.arg[1])) = 1
          /\ \A i \in RowsOf(db', last'.op, last'.arg[1]) :
                Holds(db'[last'.table][i], last'.arg[1])]_vars

\* the tables matched on a natural key of several columns
NaturalKeyMethods == {"load_pokemon_stats", "load_pokemon_types",
                      "load_type_effectiveness", "_load_pokemon_ability",
                      "_load_pokemon_move"}

\* C2: after any sequence of loader operations on any inputs the store holds
\* at most one row per natural key.
C2_OneRowPerNaturalKey ==
    \A op \in NaturalKeyMethods :
        LET tbl == db[Method(op).M.table]
        IN \A i, j \in 1..Len(tbl) :
              i # j => Key(tbl[i], Method(op).U.key) # Key(tbl[j], Method(op).U.key)

\* C3: load_all_ability_data applied to the output of transform_ability_batch
\* (distinct ability ids) commits, and the store then has an Ability row for
\* every id of the batch.
C3_TransformedAbilitiesLoad ==
    (/\ last.op = "load_all_ability_data"
     /\ \A i \in 1..Len(last.arg) : last.arg[i] \in TransformedAbilities
     /\ \A i, j \in 1..Len(last.arg) : i # j => last.arg[i].id # last.arg[j].id)
    => /\ last.exc = "none"
       /\ \A i \in 1..Len(last.arg) : Has(db, "abilities", last.arg[i].id)

AssociationMethods == {"load_pokemon_stats", "load_pokemon_types",
                       "_load_pokemon_ability", "_load_pokemon_move"}

\* C4: whenever load_all_pokemon_data inserts an association row, the rows it
\* references are in the store (given the Pokemon, types and abilities it
\* refers to were loaded first, as the load order prescribes): no association
\* INSERT meets a missing parent row, in particular not a missing Move row.
C4_LoadOrderSatisfiesForeignKeys ==
    (/\ last.via = "load_all_pokemon_data"
     /\ last.op \in AssociationMethods
     /\ \A i \in 1..Len(last.arg) :
           last.arg[i] \in Method(last.op).items
              => LoadableParentsPresent(db, last.op, last.arg[i]))
    => last.missing = {}

\* the last item of a list that carries the natural key of its i-th item
LastWithKey(data, keyF, i) ==
    data[CHOOSE j \in i..Len(data) :
            /\ Key(data[j], keyF) = Key(data[i], keyF)
            /\ \A k \in (j + 1)..Len(data) : Key(data[k], keyF) # Key(data[i], keyF)]

\* C5: one call of a write method is all-or-nothing: if it raises, the store
\* is as it was before the call; if it returns, every item of its input has a
\* committed row that holds the values given last for its natural key.
C5_WriteMethodAllOrNothing ==
    [][OneMethodCall =>
         /\ last'.exc # "none" => db' = db
         /\ last'.exc = "none" =>
               \A i \in 1..Len(last'.arg) :
                  \E r \in RowsOf(db', last'.op, last'.arg[i]) :
                     Holds(db'[last'.table][r],
                           LastWithKey(last'.arg, Method(last'.op).U.key, i))]_vars

\* a write method raised at its second item, after work on the first
C5_Witness ==
    /\ last.op = "load_pokemon_stats" /\ last.via = ""
    /\ last.exc = "KeyError"
    /\ Len(last.arg) = 2 /\ last.arg[1] \in StatItems
    /\ Has(db, "pokemon", last.arg[1].pokemon_id)

\* C6: when one entity type of a composite load fails, the exception reaches
\* the caller, no later entity type is attempted, and the tables in which the
\* earlier entity types of the call committed rows are unchanged.
C6_CompositeFailureKeepsEarlierCommits ==
    [][(LoaderStep /\ last'.via # "" /\ last'.exc # "none")
       => /\ pc' = "idle"
          /\ \A t \in (IF pc = "idle" THEN {} ELSE WroteSoFar) : db'[t] = db[t]
          /\ \A t \in Tables \ {last'.table} : db'[t] = db[t]]_vars

\* a composite load failed at a later entity type after committing earlier ones
C6_Witness ==
    /\ last.via = "load_all_pokemon_data"
    /\ last.exc # "none"
    /\ pc = "idle"
    /\ last.wrote # {}
    /\ \A t \in last.wrote : db[t] # <<>>

\* the type associations of a Pokemon in the store
TypeRows(p) == {i \in 1..Len(db.pokemon_types) : db.pokemon_types[i].pokemon_id = p}

\* C20: after any sequence of successful loads, a reload with other types or
\* slots included, every Pokemon that has type associations has one or two of
\* them, and no two type associations of one Pokemon share a slot.
C20_OneOrTwoTypesDistinctSlots ==
    \A p \in PokemonIds :
        /\ Cardinality(TypeRows(p)) <= 2
        /\ \A i \in TypeRows(p), j \in TypeRows(p) :
            i # j => db.pokemon_types[i].slot # db.pokemon_types[j].slot

\* the natural keys present in the table a write method writes
KeysIn(store, op) ==
    {Key(store[Method(op).M.table][i], Method(op).U.key) :
        i \in 1..Len(store[Method(op).M.table])}

\* C21: no loader operation deletes a row: across any sequence of loader
\* operations, successful or failed, the set of natural keys present in each
\* table never shrinks, and no table loses a row.
C21_NoRowDeleted ==
    [][/\ \A op \in WriteMethods : KeysIn(db, op) \subseteq KeysIn(db', op)
       /\ \A t \in Tables : Len(db'[t]) >= Len(db[t])]_vars

\* a load of types failed at the store while a committed type row was there
C21_Witness ==
    /\ last.op = "load_types" /\ last.exc = "IntegrityError"
    /\ calls = 2
    /\ Len(db.types) = 1

\* the keys a list names, and whether it names one twice
NoKeyTwice(data, keyF) ==
    \A i, j \in 1..Len(data) : i # j => Key(data[i], keyF) # Key(data[j], keyF)

\* C28: natural-key uniqueness survives concurrent loads: when two loader
\* sessions run load_pokemon_stats for the same pokemon_id and stat_name
\* concurrently, then under every interleaving of their existence checks,
\* inserts and commits the store ends with exactly one row for that key.
C28_OneRowPerKeyUnderConcurrency ==
    (/\ io.op = "sessions"
     /\ \A s \in Sessions :
           /\ io.session[s].pc = "done"
           /\ io.session[s].exc = "none"
           /\ NoKeyTwice(io.session[s].stats_data, PokemonStatU.key))
    => \A s \in Sessions : \A i \in 1..Len(io.session[s].stats_data) :
          Cardinality(Matches(io.store.pokemon_stats, PokemonStatU.key,
                              io.session[s].stats_data[i])) = 1

\* C24: atomicity holds per entity type: when a composite load fails while
\* loading an entity type, none of the rows of that entity type supplied to
\* the call are persisted; the table of the entity type is as it was before.
C24_EntityTypeAllOrNothing ==
    [][(LoaderStep /\ last'.via # "" /\ last'.exc # "none")
        => db'[last'.table] = db[last'.table]]_vars

----------------------------------------------------------------------------
(* Properties of the API client *)

\* a step in which the body of get ran: the first try of a call, or a retry
BodyRan == gets' = gets + 1 \/ req # NoReq

Succeeded(o) == o.result \in {"cached", "fetched"}

\* C7: for any endpoint and any JSON body, a get with use_cache=true that
\* finds a cache file for the endpoint returns the file's content and sends
\* no request; hence the second of two successive successful caching gets of
\* one endpoint sends no request and returns the data the first returned.
C7_CacheHitShortCircuits ==
    [][BodyRan =>
         /\ (out'.use_cache /\ _get_cache_path(out'.endpoint) \in DOMAIN cache)
               => /\ out'.result = "cached"
                  /\ out'.data = cache[_get_cache_path(out'.endpoint)]
                  /\ out'.at = {}
         /\ (/\ gets' = gets + 1
             /\ Succeeded(out) /\ Succeeded(out')
             /\ out.use_cache /\ out'.use_cache
             /\ out.endpoint = out'.endpoint)
               => /\ out'.at = {}
                  /\ out'.data = out.data]_vars

\* C8 as stated: every run of get that misses the cache and whose request
\* succeeds leaves a cache file for the endpoint holding the fetched JSON,
\* whatever the value of use_cache.
C8_EveryFetchWritesCache ==
    [][(BodyRan /\ out'.result = "fetched")
       => /\ _get_cache_path(out'.endpoint) \in DOMAIN cache'
          /\ cache'[_get_cache_path(out'.endpoint)] = out'.data]_vars

\* C8, amended: a run of get with use_cache=true whose request succeeds
\* leaves a cache file for the endpoint holding the fetched JSON and leaves
\* every other file alone; with use_cache=false it leaves the cache as it was.
C8_FetchWritesCacheWhenEnabled ==
    [][(BodyRan /\ out'.result = "fetched")
       => IF out'.use_cache
          THEN /\ DOMAIN cache' = DOMAIN cache \cup {_get_cache_path(out'.endpoint)}
               /\ cache'[_get_cache_path(out'.endpoint)] = out'.data
               /\ \A p \in DOMAIN cache :
                     p # _get_cache_path(out'.endpoint) => cache'[p] = cache[p]
          ELSE cache' = cache]_vars

\* a caching fetch wrote a file, then a fetch with use_cache=false of another
\* endpoint returned data and wrote none
C8_Witness ==
    /\ out.result = "fetched" /\ ~out.use_cache
    /\ _get_cache_path(out.endpoint) \notin DOMAIN cache
    /\ \E e \in Endpoints :
          /\ _get_cache_path(e) \in DOMAIN cache
          /\ cache[_get_cache_path(e)] \in Bodies

\* C9: for one client, a request is sent at least 60/rate_limit seconds after
\* the client's previous request (the tries of a retried get included), and a
\* get served from the cache neither sleeps nor moves the watermark.
C9_ClientSpacing ==
    [][BodyRan =>
         /\ \A sent \in out'.at : \A prev \in net[out'.client] :
               sent - prev >= request_interval
         /\ out'.result = "cached"
               => /\ out'.slept = 0
                  /\ now' = out'.began
                  /\ out'.at = {}
                  /\ last_request_time' = last_request_time]_vars

\* the second try of a get had to sleep before it sent its request
C9_Witness ==
    /\ out.tries = 2
    /\ out.slept > 0
    /\ out.at # {}
    /\ \A sent \in out.at : sent = last_request_time[out.client]

\* C10: a request is sent at least 60/rate_limit seconds after the previous
\* request of the run, whichever fetcher's client sent that one.
C10_GlobalSpacing ==
    [][BodyRan =>
         \A sent \in out'.at : \A c \in Clients : \A prev \in net[c] :
            sent - prev >= request_interval]_vars

\* C11: one get call makes at most 5 tries; a further try follows only a try
\* of the same call that failed; a try whose request succeeds ends the call
\* with the data of that request; a failure of one of the first four tries
\* leaves the call to be tried again, and the failure of the fifth is raised.
C11_AtMostFiveTries ==
    [][BodyRan =>
         /\ out'.tries <= max_tries
         /\ req # NoReq
               => /\ out.result = "retry" /\ out.at # {}
                  /\ out'.tries = out.tries + 1
                  /\ out'.client = out.client /\ out'.endpoint = out.endpoint
         /\ out'.result = "fetched"
               => /\ req' = NoReq
                  /\ out'.data \in Bodies
                  /\ out'.at # {}
         /\ out'.result = "retry"
               => /\ out'.tries < max_tries
                  /\ req' # NoReq /\ req'.tries = out'.tries
         /\ (out'.at # {} /\ out'.data = None)
               => out'.result = (IF out'.tries = max_tries THEN "raised" ELSE "retry")
         /\ out'.result = "raised"
               => /\ out'.tries = max_tries
                  /\ req' = NoReq]_vars

\* five tries of one call failed and the failure was raised
C11_Witness ==
    /\ out.result = "raised"
    /\ out.tries = max_tries
    /\ req = NoReq
    /\ gets = 1

BatchOps == {"fetch_pokemon_batch", "fetch_all_pokemon",
             "fetch_all_types_with_effectiveness", "fetch_all_abilities"}

\* the items of a list at the positions where the flags are set, in order
RECURSIVE Chosen(_, _, _)
Chosen(items, flags, i) ==
    IF i > Len(items) THEN <<>>
    ELSE (IF flags[i] THEN <<items[i]>> ELSE <<>>) \o Chosen(items, flags, i + 1)

\* C12: a batch fetch that has its list of items never raises: it attempts
\* every item, and returns exactly the items whose fetch succeeded, in the
\* order of the requests.
C12_BatchFetchTolerant ==
    (io.op \in BatchOps /\ io.listed)
    => /\ io.raised = "none"
       /\ io.attempted = [i \in 1..Len(io.items) |-> i]
       /\ io.returned = Chosen(io.items, io.oks, 1)

\* C22: each full-catalog fetcher requests the detail endpoint of exactly the
\* members its list endpoint reports: every listed member is requested once
\* and no identifier that is not a listed member is requested.
C22_RequestsExactlyListedMembers ==
    (/\ io.op \in {"fetch_all_pokemon", "fetch_all_types_with_effectiveness",
                   "fetch_all_abilities"}
     /\ io.listed
     /\ \A i \in 1..Len(io.members) :
            DOMAIN io.members[i] \in {{"id"}, {"name", "url"}})
    => LET key == IF io.op = "fetch_all_abilities" THEN "id" ELSE "name"
       IN /\ Len(io.requested) = Len(io.members)
          /\ \A i \in 1..Len(io.members) :
                \E j \in 1..Len(io.requested) : io.requested[j] = io.members[i][key]
          /\ \A j \in 1..Len(io.requested) :
                \E i \in 1..Len(io.members) : io.members[i][key] = io.requested[j]

\* C29: fetch_pokemon_batch(start_id, end_id) always returns, even when every
\* network call fails: it makes at most 2 get calls per id and so sends at
\* most 10 requests per id, returns at most end_id - start_id + 1 items, and
\* returns the empty list when start_id > end_id.
C29_BatchBounded ==
    io.op = "fetch_pokemon_batch" =>
        /\ io.raised = "none"
        /\ Len(io.details) = Len(io.items)
        /\ \A i \in 1..Len(io.details) :
              /\ Len(io.details[i].gets) <= 2
              /\ io.details[i].attempts <= 2 * max_tries
              /\ 2 * max_tries = 10
        /\ io.start_id <= io.end_id => Len(io.returned) <= io.end_id - io.start_id + 1
        /\ io.start_id > io.end_id => io.returned = <<>>

\* a batch of several ids in which every request failed
C29_Witness ==
    /\ io.op = "fetch_pokemon_batch"
    /\ io.end_id > io.start_id
    /\ \A i \in 1..Len(io.details) :
          /\ io.details[i].gets = <<<<"pokemon", "/">> \o str(io.items[i].id)>>
          /\ io.details[i].attempts = max_tries
    /\ io.returned = <<>>

\* the i-th id of a batch call is part of its result
InResult(i) == \E j \in 1..Len(io.returned) : io.returned[j] = io.items[i]

IsFileOf(path, endpoint) ==
    /\ Len(path) = Len(endpoint) + 3
    /\ path[1] = "cache" /\ path[2] = "/" /\ path[Len(path)] = ".json"
    /\ \A i \in 1..Len(endpoint) :
        path[i + 2] = (CASE endpoint[i] = "/" -> "_"
                         [] endpoint[i] = "?" -> "_"
                         [] OTHER -> endpoint[i])

\* C18: the cache file of an endpoint is the cache directory joined with the
\* endpoint in which every '/' and every '?' is replaced by '_', followed by
\* '.json' ('pokemon/2' is kept in pokemon_2.json), and after a successful
\* get of an endpoint that file exists.
C18_CachePathOfEndpoint ==
    /\ [](/\ \A e \in Endpoints \cup {<<"pokemon", "?", "limit=1", "/">>} :
               IsFileOf(_get_cache_path(e), e)
          /\ _get_cache_path(<<"pokemon", "/", "2">>)
               = <<"cache", "/", "pokemon", "_", "2", ".json">>)
    /\ [][(BodyRan /\ Succeeded(out') /\ out'.use_cache)
            => \E path \in DOMAIN cache' : IsFileOf(path, out'.endpoint)]_vars

\* a get of pokemon/1 fetched its data and the file cache/pokemon_1.json holds it
C18_Witness ==
    /\ out.result = "fetched" /\ out.use_cache
    /\ out.endpoint = <<"pokemon", "/", "1">>
    /\ <<"cache", "/", "pokemon", "_", "1", ".json">> \in DOMAIN cache
    /\ cache[<<"cache", "/", "pokemon", "_", "1", ".json">>] = out.data

\* C27: a failed fetch never touches the cache: a run of get's body whose
\* request fails (transport error, non-2xx status or malformed JSON body)
\* creates and modifies no cache file, so every cache file holds a body that a
\* successful request returned.
C27_FailedFetchLeavesCache ==
    /\ [][out'.result \in {"retry", "raised"} => cache' = cache]_vars
    /\ [](\A p \in DOMAIN cache : cache[p] \in Bodies)

\* a request failed while the cache already held a file
C27_Witness ==
    /\ out.result \in {"retry", "raised"}
    /\ out.use_cache
    /\ cache # <<>>

\* C26: distinct endpoints never share a cache entry: a get(e2) with caching
\* enabled never returns data that was fetched and cached for a different
\* endpoint e1.  The cache starts empty, so what the second get call of a run
\* finds in it was fetched by the first call, whose endpoint `out` still holds.
C26_NoSharedCacheEntry ==
    [][(gets = 1 /\ gets' = 2 /\ out'.result = "cached")
          => out'.endpoint = out.endpoint]_vars

----------------------------------------------------------------------------
(* Properties of the type analyzer *)

TypeNames == {db.types[i].name : i \in 1..Len(db.types)}

\* the stored multipliers of an ordered pair of type names
Stored(a, d) ==
    {r.effectiveness : r \in
        {db.type_effectiveness[i] : i \in
            {j \in 1..Len(db.type_effectiveness) :
                /\ TypeName(db, db.type_effectiveness[j].attack_type_id) = a
                /\ TypeName(db, db.type_effectiveness[j].defense_type_id) = d}}}

\* what the table of multipliers says of a pair: the stored value, else 1.0
Multiplier(a, d) == IF Stored(a, d) = {} THEN 4 ELSE CHOOSE q \in Stored(a, d) : TRUE

\* C13: get_effectiveness_matrix returns a table with a row and a column for
\* every type of the types table; the cell of a stored (attack, defense) pair
\* is the stored multiplier and the cell of every other ordered pair is 1.0.
C13_MatrixComplete ==
    io.op = "get_effectiveness_matrix" =>
        /\ io.matrix.exc = "none"
        /\ io.matrix.index = TypeNames
        /\ io.matrix.columns = TypeNames
        /\ \A a \in TypeNames, d \in TypeNames :
            /\ Cardinality(Stored(a, d)) <= 1
            /\ io.matrix.cell[<<a, d>>].q = Multiplier(a, d)

\* the product of the table's multipliers of an attacker over a list of types
RECURSIVE Product(_, _)
Product(a, defenders) ==
    IF defenders = <<>> THEN 4
    ELSE (Multiplier(a, Head(defenders)) * Product(a, Tail(defenders))) \div 4

\* C14: for a Pokemon with one or two types, get_pokemon_weakness_profile has
\* exactly one entry per attacking type, and the entry of X is the product of
\* the multipliers of X against the Pokemon's types, an unstored pair being 1.0.
C14_ProfileMultiplicative ==
    (/\ io.op = "get_pokemon_weakness_profile"
     /\ Len(TypesOf(db, io.pokemon_id)) \in {1, 2}) =>
        /\ io.profile.exc = "none"
        /\ Len(io.profile.rows) = Cardinality(TypeNames)
        /\ \A a \in TypeNames : \E i \in 1..Len(io.profile.rows) :
            /\ io.profile.rows[i].attacking_type = a
            /\ io.profile.rows[i].effectiveness = Product(a, TypesOf(db, io.pokemon_id))

\* C15: recommend_counter_types returns exactly the attacking types of the
\* weakness profile whose effectiveness is above 1.0, sorted by effectiveness
\* descending and cut to the first top_n rows: never more than top_n rows and
\* never a type with effectiveness 1.0 or less.
C15_CountersFromProfile ==
    (io.op = "recommend_counter_types" /\ io.top_n >= 0) =>
        LET profile == get_pokemon_weakness_profile(db, io.pokemon_id)
            above == Descending(SelectSeq(profile.rows, LAMBDA r : r.effectiveness > 4))
        IN /\ io.counters.exc = "none"
           /\ io.counters.rows =
                SubSeq(above, 1, IF io.top_n < Len(above) THEN io.top_n ELSE Len(above))
           /\ Len(io.counters.rows) <= io.top_n
           /\ \A i \in 1..Len(io.counters.rows) : io.counters.rows[i].effectiveness > 4

----------------------------------------------------------------------------
(* Properties of the Pokemon transformer *)

\* the details of a move entry the first-match rule keeps: none or one
Kept(details) ==
    {k \in 1..Len(details) :
        /\ details[k].version_group.name \in {"sword-shield", "sun-moon", "x-y"}
        /\ \A j \in 1..(k - 1) :
            details[j].version_group.name \notin {"sword-shield", "sun-moon", "x-y"}}

\* level and method of the rows the raw move entries call for, in order
RECURSIVE KeptMoves(_)
KeptMoves(entries) ==
    IF entries = <<>> THEN <<>>
    ELSE LET details == Head(entries).version_group_details
         IN (IF Kept(details) = {} THEN <<>>
             ELSE <<[level_learned_at |-> details[CHOOSE k \in Kept(details) : TRUE].level_learned_at,
                     learn_method |-> details[CHOOSE k \in Kept(details) : TRUE].move_learn_method.name]>>)
            \o KeptMoves(Tail(entries))

NamesResource(url, kind, n) == url = Url(kind, n, <<>>) \/ url = Url(kind, n, <<"/">>)

\* C17: every raw stat, type and ability entry becomes exactly one row, in the
\* same order, with pokemon_id the raw record's id; stat rows keep stat name and
\* base_stat, type rows keep slot, ability rows keep is_hidden and slot, and
\* type_id, ability_id and move_id are the integer of the trailing path segment
\* of the entry's resource URL, with or without a trailing slash.
C17_RowsMirrorRawEntries ==
    io.op = "transform_pokemon" =>
        LET raw == io.raw_data
            got == io.transformed_data
        IN /\ Len(got.stats) = Len(raw.stats)
           /\ \A i \in 1..Len(raw.stats) :
                got.stats[i] = [pokemon_id |-> raw.id,
                                stat_name |-> raw.stats[i].stat.name,
                                base_value |-> raw.stats[i].base_stat]
           /\ Len(got.types) = Len(raw.types)
           /\ \A i \in 1..Len(raw.types) : \E n \in 0..99 :
                /\ NamesResource(raw.types[i].type.url, <<"t">>, n)
                /\ got.types[i] = [pokemon_id |-> raw.id, type_id |-> n,
                                   slot |-> raw.types[i].slot]
           /\ Len(got.abilities) = Len(raw.abilities)
           /\ \A i \in 1..Len(raw.abilities) : \E n \in 0..99 :
                /\ NamesResource(raw.abilities[i].ability.url, <<"a">>, n)
                /\ got.abilities[i] = [pokemon_id |-> raw.id, ability_id |-> n,
                                       is_hidden |-> raw.abilities[i].is_hidden,
                                       slot |-> raw.abilities[i].slot]
           /\ \A i \in 1..Len(got.moves) :
                /\ got.moves[i].pokemon_id = raw.id
                /\ \E j \in 1..Len(raw.moves), n \in 0..99 :
                    /\ NamesResource(raw.moves[j].move.url, <<"m">>, n)
                    /\ got.moves[i].move_id = n

\* type 13 read from a URL that ends in a slash, next to two stat rows and a move row
C17_Witness ==
    /\ io.op = "transform_pokemon"
    /\ io.raw_data.types[1].type.url = Url(<<"t">>, 13, <<"/">>)
    /\ io.transformed_data.types[1].type_id = 13
    /\ Len(io.transformed_data.stats) = 2
    /\ Len(io.transformed_data.moves) = 1

\* the transformed records of a batch, one by one
Each(batch) == [i \in 1..Len(batch) |-> transform_pokemon(batch[i])]

\* C25: transform_pokemon_batch is the order-preserving concatenation of
\* transform_pokemon over the batch: 'pokemon' has one entry per input record
\* in input order, and 'stats', 'types', 'abilities' and 'moves' are the
\* concatenations, in input order, of the per-record lists; an empty batch
\* gives five empty lists.
C25_BatchIsConcatenation ==
    io.op = "transform_pokemon_batch" =>
        LET each == Each(io.raw_data_batch)
            got == io.transformed_batch
        IN /\ DOMAIN got = {"pokemon", "stats", "types", "abilities", "moves"}
           /\ got.pokemon = [i \in 1..Len(each) |-> each[i].pokemon]
           /\ got.stats = Flatten([i \in 1..Len(each) |-> each[i].stats])
           /\ got.types = Flatten([i \in 1..Len(each) |-> each[i].types])
           /\ got.abilities = Flatten([i \in 1..Len(each) |-> each[i].abilities])
           /\ got.moves = Flatten([i \in 1..Len(each) |-> each[i].moves])
           /\ io.raw_data_batch = <<>> =>
                \A k \in DOMAIN got : got[k] = <<>>

\* a batch of two records with different stats, the second with a move
C25_Witness ==
    /\ io.op = "transform_pokemon_batch"
    /\ Len(io.raw_data_batch) = 2
    /\ io.raw_data_batch[1].stats # io.raw_data_batch[2].stats
    /\ io.raw_data_batch[1].moves = <<>>
    /\ Len(io.transformed_batch.stats) = 2
    /\ Len(io.transformed_batch.moves) = 1

----------------------------------------------------------------------------
(* Properties of the entry points *)

\* the positions of a call among the calls a run has made
At(call) == {i \in 1..Len(io.done) : io.done[i] = call}

\* C19: in every entry point that loads Pokemon data, the type data and the
\* ability data are loaded before the Pokemon data: types, then abilities,
\* then Pokemon.
C19_TypesAbilitiesThenPokemon ==
    io.op = "run" =>
        \A p \in At("load_all_pokemon_data") :
            \E t \in At("load_all_type_data"), a \in At("load_all_ability_data") :
                t < a /\ a < p

====
